---- MODULE Spec2Model ----
(***************************************************************************)
(* A model of the sandwich bot's monitoring engine (src/src/monitoring.rs), *)
(* its supervisor (src/src/bot.rs) and the pool cache (src/src/dex.rs).     *)
(*                                                                         *)
(* The specifications share the variables:                                 *)
(*   Spec           the ingestion pipeline: start, the log subscription,   *)
(*                  the fetch tasks, the queue and the analysis tasks;     *)
(*   CacheSpec      concurrent read-through lookups of the price, supply   *)
(*                  and pool caches;                                       *)
(*   ImpactSpec     one call of calculate_tokens_received_and_mcap_impact  *)
(*                  on a bounded family of transaction records;            *)
(*   ProjectionSpec one constant-product projection;                       *)
(*   AnalyzerSpec   the investment and receipt analysis of one record;     *)
(*   DexSpec        the pool decoder behind the DexManager;                *)
(*   MetricsSpec    the pool metrics of the decoder;                       *)
(*   UpdaterSpec    the task refreshing the native-asset price;            *)
(*   BundleSpec     one run of the sandwich engine (src/src/sandwich.rs);  *)
(*   ReceiverSpec   calls of monitor_websocket_transactions on engines     *)
(*                  sharing one state.                                     *)
(*                                                                         *)
(* f64 values are modelled as exact rationals <<n, d>> in lowest terms with *)
(* d > 0, extended with <<1, 0>> (+inf), <<-1, 0>> (-inf) and <<0, 0>>      *)
(* (NaN) so that a division by zero yields what IEEE 754 yields.  Rounding  *)
(* is abstracted.                                                          *)
(***************************************************************************)
EXTENDS Integers, Sequences, FiniteSets, TLC

VARIABLES
    startPc,        \* SandwichBot::start: position in the function
    sol_price,      \* MonitoringEngine.sol_price: NoPrice or a price in USD
    logs_receiver,  \* MonitoringEngine.logs_receiver: "None" or "Some"
    stream,         \* the log subscription: "closed", "open" or "ended"
    monitorPc,      \* the task running monitor_websocket_transactions
    logsPc,         \* the task running process_websocket_logs
    notifs,         \* the notifications delivered so far (signature = index)
    fetchTask,      \* the fetch task spawned for each notification
    queue,          \* the unbounded channel tx_sender -> tx_receiver
    anaTask,        \* the analysis task of each signature, once spawned
    logOut,         \* the log sink: the set of lines the analysis tasks wrote
    now,            \* the clock, in seconds
    cache,          \* price_cache, supply_cache and pool_cache
    lookup,         \* the cache lookups in progress, one per caller
    fetches,        \* how often each caller's lookup invoked its fetcher
    tx,             \* ImpactSpec: the transaction record under analysis
    impactPc,       \* ImpactSpec: position in the impact calculation
    calc,           \* ImpactSpec: the values computed so far
    proj,           \* ProjectionSpec: one projection, its inputs and locals
    ana,            \* AnalyzerSpec: what each run of the analyzer returned
    dex,            \* DexSpec: the build and the last call into the DexManager
    requests,       \* the requests each fetch task has made, with their outcome
    upd,            \* UpdaterSpec: the task refreshing the native-asset price
    bundle,         \* BundleSpec: one run of the sandwich engine
    mon             \* ReceiverSpec: the calls of monitor_websocket_transactions

vars == <<startPc, sol_price, logs_receiver, stream, monitorPc, logsPc, notifs,
          fetchTask, queue, anaTask, logOut, now, cache, lookup, fetches,
          tx, impactPc, calc, proj, ana, dex, requests, upd, bundle, mon>>

pipeVars == <<startPc, sol_price, logs_receiver, stream, monitorPc, logsPc,
              notifs, fetchTask, queue, anaTask, logOut>>

cacheVars == <<now, cache, lookup, fetches>>

impactVars == <<tx, impactPc, calc>>

extraVars == <<requests, upd, bundle, mon>>

----------------------------------------------------------------------------
(* f64 arithmetic                                                          *)

Abs(x) == IF x < 0 THEN -x ELSE x

RECURSIVE Gcd(_, _)
Gcd(a, b) == IF b = 0 THEN a ELSE Gcd(b, a % b)

\* The rational n/d in lowest terms with a positive denominator; d = 0 gives
\* an infinity (n # 0) or NaN (n = 0).
Norm(n, d) ==
    IF d = 0 THEN <<IF n < 0 THEN -1 ELSE IF n > 0 THEN 1 ELSE 0, 0>>
    ELSE LET g == Gcd(IF n < 0 THEN -n ELSE n, IF d < 0 THEN -d ELSE d)
         IN  IF d < 0 THEN <<(-n) \div g, (-d) \div g>> ELSE <<n \div g, d \div g>>

F(i) == <<i, 1>>

NaN == <<0, 0>>

FNeg(a) == <<-a[1], a[2]>>

\* inf * 0 = NaN, inf * x = +-inf
FMul(a, b) == Norm(a[1] * b[1], a[2] * b[2])

\* x/0 = +-inf, 0/0 = NaN, x/inf = 0, inf/inf = NaN
FDiv(a, b) ==
    IF b[1] < 0 THEN Norm(-(a[1] * b[2]), a[2] * (-b[1]))
    ELSE Norm(a[1] * b[2], a[2] * b[1])

\* inf + inf = inf, inf - inf = NaN
FAdd(a, b) ==
    IF a[2] = 0 /\ b[2] = 0 THEN (IF a = b THEN a ELSE NaN)
    ELSE LET g == IF a[2] = 0 \/ b[2] = 0 THEN 1 ELSE Gcd(a[2], b[2])
         IN  Norm(a[1] * (b[2] \div g) + b[1] * (a[2] \div g), (a[2] \div g) * b[2])

FSub(a, b) == FAdd(a, FNeg(b))

\* a < b; every comparison with NaN is false.
FLt(a, b) ==
    IF a = NaN \/ b = NaN THEN FALSE
    ELSE IF a[2] > 0 /\ b[2] > 0
         THEN LET ia == a[1] \div a[2]
                  ib == b[1] \div b[2]
              IN  \/ ia < ib
                  \/ ia = ib /\ (a[1] % a[2]) * b[2] < (b[1] % b[2]) * a[2]
    ELSE IF a[2] > 0 THEN b[1] > 0
    ELSE IF b[2] > 0 THEN a[1] < 0
    ELSE a[1] < b[1]

FGt(a, b) == FLt(b, a)

FLe(a, b) == FLt(a, b) \/ (a # NaN /\ a = b)

FAbs(a) == <<Abs(a[1]), a[2]>>

\* `x as u64`: truncation toward zero, saturating; NaN and negative values
\* give 0.  (+inf saturates to u64::MAX; token amounts decoded from JSON are
\* finite, so that case does not arise.)
AsU64(a) == IF a[2] = 0 \/ a[1] < 0 THEN 0 ELSE a[1] \div a[2]

----------------------------------------------------------------------------
(* Constants of the program                                                *)

WSOL_MINT == "So11111111111111111111111111111111111111112"

USDC_MINT == "EPjFWdd5AufqSSqeM2qN1xzybapC8G4wEGGkZwyTDt1v"

USDT_MINT == "Es9vMFrzaCERmJfrF4H2FYD4KCoNkY11McCe8BenwNYB"

SYSTEM_TOKENS == {WSOL_MINT, USDC_MINT, USDT_MINT}

\* The table KNOWN_DEX_PROGRAMS, in its order: <<address, name>>.
KNOWN_DEX_PROGRAMS ==
    << <<"675kPX9MHTjS2zt1qfr1NYHuzeLXfQM9H24wFSUt1Mp8", "Raydium V4">>,
       <<"RVKd61ztZW9GUwhRbbLoYVRE5Xf1B2tVscKqwZqXgEr", "Raydium V3">>,
       <<"HWy1jotHpo6UqeQxx49dpYYdQB8wj9Qk9MdxwjLvDHB8", "Raydium V2">>,
       <<"whirLbMiicVdio4qvUfM5KAg6Ct8VwpYzGff3uctyCc", "Orca Whirlpool">>,
       <<"9W959DqEETiGZocYWCQPaJ6sBmUzgfxXfqGeTEdp3aQP", "Orca V1">>,
       <<"DjVE6JNiYqPL2QXyCUUh8rNjHrbz9hXHNYt99MQ59qw1", "Orca V2">>,
       <<"LBUZKhRxPF3XUpBCjp4YzTKgLccjZhTSDM9YuVaPwxo", "Meteora DLMM">>,
       <<"CAMMCzo5YL8w4VFF8KVHrK22GGUQpFuLUUamH4uV8K9", "Meteora PCL">>,
       <<"Eo7WjKq67rjJQSZxS6z3YkapzY3eMj6Xy8X5EQVn5UaB", "Meteora V1">>,
       <<"JUP6LkbZbjS1jKKwapdHNy74zcZ3tLUZoi5QNyVTaV4", "Jupiter V6">>,
       <<"JUP4Fb2cqiRUcaTHdrPC8h2gNsA2ETXiPDD33WcGuJB", "Jupiter V4">>,
       <<"JUP3c2Uh3WA4Ng34tw6kPd2G4C5BB21Xo36Je1s32Ph", "Jupiter V3">>,
       <<"9xQeWvG816bUx9EPjHmaT23yvVM2ZWbrrpZb9PusVFin", "Serum DEX V3">>,
       <<"EUqojwWA2rd19FZrzeBncJsm38Jm1hEhE3zsmX3bRc2o", "Serum DEX V2">>,
       <<"CURVGoZn8zycx6FXwwevgBTB2gVvdbGTEpvMJDbgs2t4", "Aldrin V2">>,
       <<"AMM55ShdkoGRB5jVYPjWziwk8m5MpwyDgsMWHaMSQWH6", "Aldrin V1">>,
       <<"SSwpkEEWHu1Wj2jXKJ8JY8vKqJm8vKqJm8vKqJm8vKq", "Saber">>,
       <<"SSwpMgqNDsyV7mAgN9ady4bDVu5ySjmmXejXvy2vLt1", "Saber V2">>,
       <<"CTMAxxk34HjKWxQ3QLH1e5kQvQYpKXfJ8vKqJm8vKqJm", "Cropper">>,
       <<"CTMAxxk34HjKWxQ3QLH1e5kQvQYpKXfJ8vKqJm8vKqJm", "Cropper V2">>,
       <<"EewxydAPCCVuNEyrVN68PuSYdQ7wKn27V9Gjeoi8dy3S", "Lifinity">>,
       <<"EewxydAPCCVuNEyrVN68PuSYdQ7wKn27V9Gjeoi8dy3S", "Lifinity V2">>,
       <<"MERLuDFBMmsHnsBPZw2sDQZHvXFMwp8EdjudcU2HKky", "Mercurial">>,
       <<"MERLuDFBMmsHnsBPZw2sDQZHvXFMwp8EdjudcU2HKky", "Mercurial V2">>,
       <<"SARoPv2J2j9cLj2eN7Nd5xZtYyVkQwF8KqJm8vKqJm8v", "Saros">>,
       <<"SARoPv2J2j9cLj2eN7Nd5xZtYyVkQwF8KqJm8vKqJm8v", "Saros V2">>,
       <<"PhoeNiLZ3D1nw8vKqJm8vKqJm8vKqJm8vKqJm8vKqJm", "Phoenix">>,
       <<"PhoeNiLZ3D1nw8vKqJm8vKqJm8vKqJm8vKqJm8vKqJm", "Phoenix V2">>,
       <<"6EF8rrecthR5Dkzon8Nwu78hRvfCKubJ14M5uBEwF6P", "Pump.fun">>,
       <<"BSfD6SHZigAfDWSjzD5Q41jw8LmKwtmjskPH9XW1mrRW", "Pump.fun Bonding Curve">> >>

\* The table KNOWN_POOL_ACCOUNTS, in its order: <<address, name>>.
KNOWN_POOL_ACCOUNTS ==
    << <<"58oQChx4yWmvKdwLLZzBi4ChoCc2fqCUWBkwMihLYQo2", "Raydium Vault Authority">>,
       <<"5Q544fKrFoe6tsEbD7S8EmxGTJYAKtTVhAW5Q5pge4j1", "Raydium Vault Authority #2">>,
       <<"9rpQJwzKz5zJzJzJzJzJzJzJzJzJzJzJzJzJzJzJzJz", "Raydium Vault Authority #3">>,
       <<"3LoAYHuSd7Gh8d7RTFnhvYtiTiefdZ5ByamU42vkzd76", "Meteora Market">>,
       <<"GpMZbSM2GgvTKHJirzeGfMFoaZ8UR2X7F4v8vHTvxFbL", "Meteora Market #2">>,
       <<"4UW2eDCoQwdfxHgroBPgAqmmQenA9sDfzU1vkA7wmbZJ", "Meteora Market #3">>,
       <<"2ND8JCiSssPPG2P2SN3FFRKZVVHFn8B44ed3bUarEGFH", "Orca Vault Authority">>,
       <<"9dpSBCfwxSM8ioGCpFUohEb2UhFbWzBbGYP2fw3jJNKr", "Orca Vault Authority #2">>,
       <<"GP8StUXNYSZjPikyRsvkTbvRV1GBxMErb59cpeCJnDf1", "Orca Vault Authority #3">>,
       <<"BKHAEZoG8juE6FVNGtsNt4cJ57XrVW9XENrcKLk32pwn", "Jupiter Vault Authority">>,
       <<"JUP6LkbZbjS1jKKwapdHNy74zcZ3tLUZoi5QNyVTaV4", "Jupiter Vault Authority #2">>,
       <<"9xQeWvG816bUx9EPjHmaT23yvVM2ZWbrrpZb9PusVFin", "Serum Market">>,
       <<"EUqojwWA2rd19FZrzeBncJsm38Jm1hEhE3zsmX3bRc2o", "Serum Market #2">> >>

NoName == "<None>"

\* The name of the first row of `table` whose address is `address`.
RECURSIVE TableLookup(_, _, _)
TableLookup(table, address, i) ==
    IF i > Len(table) THEN NoName
    ELSE IF table[i][1] = address THEN table[i][2]
    ELSE TableLookup(table, address, i + 1)

is_known_dex_program(address) == TableLookup(KNOWN_DEX_PROGRAMS, address, 1)

is_known_pool_account(address) == TableLookup(KNOWN_POOL_ACCOUNTS, address, 1)

\* pool_name.contains(word), for the names of KNOWN_POOL_ACCOUNTS.
PoolNameContains(name, word) ==
    CASE word = "Raydium" -> name \in {"Raydium Vault Authority",
                                      "Raydium Vault Authority #2",
                                      "Raydium Vault Authority #3"}
      [] word = "Meteora" -> name \in {"Meteora Market", "Meteora Market #2",
                                      "Meteora Market #3"}
      [] word = "Orca"    -> name \in {"Orca Vault Authority",
                                      "Orca Vault Authority #2",
                                      "Orca Vault Authority #3"}
      [] word = "Jupiter" -> name \in {"Jupiter Vault Authority",
                                      "Jupiter Vault Authority #2"}
      [] OTHER -> FALSE

determine_dex_type(owner) ==
    LET dex_name  == is_known_dex_program(owner)
        pool_name == is_known_pool_account(owner)
    IN  IF dex_name # NoName
        THEN CASE dex_name = "Raydium V4"     -> "RaydiumV4"
               [] dex_name = "Orca Whirlpool" -> "OrcaWhirlpool"
               [] dex_name = "Meteora DLMM"   -> "MeteoraDLMM"
               [] dex_name = "Jupiter V6"     -> "Jupiter"
               [] OTHER                       -> "Unknown"
        ELSE IF pool_name # NoName
        THEN IF PoolNameContains(pool_name, "Raydium") THEN "RaydiumV4"
             ELSE IF PoolNameContains(pool_name, "Meteora") THEN "MeteoraDLMM"
             ELSE IF PoolNameContains(pool_name, "Orca") THEN "OrcaWhirlpool"
             ELSE IF PoolNameContains(pool_name, "Jupiter") THEN "Jupiter"
             ELSE "Unknown"
        ELSE "Unknown"

\* Result values: Ok(v) and Err(message).
Ok(v) == [ok |-> TRUE, v |-> v, err |-> ""]

Err(e) == [ok |-> FALSE, v |-> <<>>, err |-> e]

----------------------------------------------------------------------------
(* Token balance records of a transaction                                  *)
(* A row is [mint, owner, amt]: owner is NoOwner when the record carries    *)
(* none, amt is NoAmt when ui_amount is None.                               *)

NoOwner == "<NoOwner>"

NoAmt == <<>>

\* ui_token_amount.ui_amount.unwrap_or(0.0)
ui_amount(b) == IF b.amt = NoAmt THEN F(0) ELSE b.amt

\* post.iter().find(|p| p.mint == mint && p.owner == Some(owner)): the index
\* of the first such row at or after i, 0 when there is none.
RECURSIVE FindPost(_, _, _, _)
FindPost(post, mint, owner, i) ==
    IF i > Len(post) THEN 0
    ELSE IF post[i].mint = mint /\ post[i].owner = owner THEN i
    ELSE FindPost(post, mint, owner, i + 1)

\* All orders in which the elements of S can be iterated (a HashSet or
\* HashMap gives no order).
Orderings(S) ==
    {s \in [1..Cardinality(S) -> S] : \A i, j \in 1..Cardinality(S) : s[i] = s[j] => i = j}

\* identify_pool_owners, the loop over pre_balances for one owner:
\* <<token_count, total_change, has_large_balance_changes>> over pre[i..].
RECURSIVE OwnerChangeStats(_, _, _, _)
OwnerChangeStats(pre, post, owner, i) ==
    IF i > Len(pre) THEN <<0, F(0), FALSE>>
    ELSE LET rest == OwnerChangeStats(pre, post, owner, i + 1)
             j    == FindPost(post, pre[i].mint, owner, 1)
         IN  IF pre[i].owner = owner /\ j # 0
             THEN LET change == FAbs(FSub(ui_amount(post[j]), ui_amount(pre[i])))
                  IN  <<rest[1] + 1, FAdd(rest[2], change),
                        rest[3] \/ FGt(change, F(1000))>>
             ELSE rest

\* Whether identify_pool_owners pushes `owner`.
IsPoolOwner(pre, post, owner) ==
    \/ is_known_dex_program(owner) # NoName
    \/ is_known_pool_account(owner) # NoName
    \/ LET st == OwnerChangeStats(pre, post, owner, 1)
       IN  st[1] >= 2 /\ st[3] /\ FGt(st[2], F(10000))

AllOwners(pre, post) ==
    ({pre[i].owner : i \in 1..Len(pre)} \cup {post[i].owner : i \in 1..Len(post)})
        \ {NoOwner}

\* The results identify_pool_owners can return: the qualifying owners in any
\* iteration order of the HashSet all_owners, or an error when none qualifies.
identify_pool_owners(pre, post) ==
    LET owners == {o \in AllOwners(pre, post) : IsPoolOwner(pre, post, o)}
    IN  IF owners = {}
        THEN {Err("Aucun owner de pool DEX identifie dans la transaction")}
        ELSE {Ok(o) : o \in Orderings(owners)}

NoBal == <<>>

\* extract_pools_from_balances, the loop over pre_balances for one owner:
\* <<pool_token_balance, pool_quote_balance>>, each NoBal or
\* <<pre_amount, post_amount, change, mint>>; a later row overwrites.
RECURSIVE OwnerPoolBalances(_, _, _, _, _, _)
OwnerPoolBalances(pre, post, owner, token_mint, i, acc) ==
    IF i > Len(pre) THEN acc
    ELSE LET b == pre[i]
             j == FindPost(post, b.mint, owner, 1)
         IN  IF b.owner = owner /\ j # 0
             THEN LET bal == <<ui_amount(b), ui_amount(post[j]),
                               FSub(ui_amount(post[j]), ui_amount(b)), b.mint>>
                  IN  OwnerPoolBalances(pre, post, owner, token_mint, i + 1,
                          IF b.mint = token_mint THEN <<bal, acc[2]>>
                          ELSE IF b.mint = WSOL_MINT \/ b.mint = USDC_MINT
                               THEN <<acc[1], bal>>
                               ELSE acc)
             ELSE OwnerPoolBalances(pre, post, owner, token_mint, i + 1, acc)

\* token_b_mint of an extracted pool: chosen by the sign of the quote balance.
ExtractedQuoteMint(quote_pre) ==
    IF FGt(quote_pre, F(0)) THEN WSOL_MINT ELSE USDC_MINT

\* The PoolInfo extract_pools_from_balances builds for one owner.
ExtractedPool(pool_owner, token_mint, token_pre, quote_pre) ==
    [dex_type          |-> determine_dex_type(pool_owner),
     token_a_mint      |-> token_mint,
     token_b_mint      |-> ExtractedQuoteMint(quote_pre),
     reserve_a         |-> AsU64(token_pre),
     reserve_b         |-> AsU64(quote_pre),
     fee_bps           |-> 30,
     liquidity_usd     |-> F(0),
     token_a_liquidity |-> token_pre,
     token_b_liquidity |-> quote_pre]

RECURSIVE extract_pools_from_balances(_, _, _, _, _)
extract_pools_from_balances(pre, post, pool_owners, token_mint, n) ==
    IF n > Len(pool_owners) THEN <<>>
    ELSE LET bal  == OwnerPoolBalances(pre, post, pool_owners[n], token_mint, 1,
                                       <<NoBal, NoBal>>)
             rest == extract_pools_from_balances(pre, post, pool_owners,
                                                 token_mint, n + 1)
         IN  IF bal[1] # NoBal /\ bal[2] # NoBal
             THEN <<ExtractedPool(pool_owners[n], token_mint, bal[1][1], bal[2][1])>>
                      \o rest
             ELSE rest

----------------------------------------------------------------------------
(* The market-impact calculator                                            *)

NoPrice == <<>>

get_sol_price_cached(price) ==
    IF price = NoPrice THEN Err("Prix SOL non disponible - attente du cache")
    ELSE Ok(price)

\* A start that does not wait for the price.
price_assumed_available(price) == TRUE

is_sol_price_available(price) == price # NoPrice

\* <<reserve_token, reserve_quote, is_sol_pair>> of a pool for token_mint.
PoolSides(pool, token_mint) ==
    IF pool.token_a_mint = token_mint
    THEN <<F(pool.reserve_a), F(pool.reserve_b), pool.token_b_mint = WSOL_MINT>>
    ELSE <<F(pool.reserve_b), F(pool.reserve_a), pool.token_a_mint = WSOL_MINT>>

\* A quote-denominated amount in USD.
QuoteToUsd(amount, is_sol_pair, price) ==
    IF is_sol_pair THEN FMul(amount, price) ELSE amount

\* k = reserve_token * reserve_quote
ConstantProduct(reserve_token, reserve_quote) == FMul(reserve_token, reserve_quote)

\* A projection of a sale: the received amount goes into the pool.
ReserveTokenAfterSale(reserve_token, tokens_received) ==
    FAdd(reserve_token, tokens_received)

ReserveTokenAfter(reserve_token, tokens_received) == FSub(reserve_token, tokens_received)

\* A quote reserve that misses the product by one token of slack.
ReserveQuoteAfterSlack(k, reserve_token_after) ==
    FDiv(k, FAdd(reserve_token_after, F(1)))

ReserveQuoteAfter(k, reserve_token_after) == FDiv(k, reserve_token_after)

\* The local values of calculate_mcap_impact_single_pool.
Projection(pool, token_mint, tokens_received, circulating_supply, price) ==
    LET sides == PoolSides(pool, token_mint)
        reserve_token == sides[1]
        reserve_quote == sides[2]
        is_sol_pair   == sides[3]
        price_before_in_quote == FDiv(reserve_quote, reserve_token)
        price_before_usd == QuoteToUsd(price_before_in_quote, is_sol_pair, price)
        k == ConstantProduct(reserve_token, reserve_quote)
        reserve_token_after == ReserveTokenAfter(reserve_token, tokens_received)
        reserve_quote_after == ReserveQuoteAfter(k, reserve_token_after)
        price_after_in_quote == FDiv(reserve_quote_after, reserve_token_after)
        price_after_usd == QuoteToUsd(price_after_in_quote, is_sol_pair, price)
        mcap_before == FMul(price_before_usd, circulating_supply)
        mcap_after  == FMul(price_after_usd, circulating_supply)
    IN  [reserve_token |-> reserve_token,
         reserve_quote |-> reserve_quote,
         is_sol_pair |-> is_sol_pair,
         tokens_received |-> tokens_received,
         price_before_in_quote |-> price_before_in_quote,
         price_before_usd |-> price_before_usd,
         k |-> k,
         reserve_token_after |-> reserve_token_after,
         reserve_quote_after |-> reserve_quote_after,
         price_after_in_quote |-> price_after_in_quote,
         price_after_usd |-> price_after_usd,
         mcap_before |-> mcap_before,
         mcap_after |-> mcap_after,
         mcap_impact_pct |->
             FMul(FDiv(FSub(mcap_after, mcap_before), mcap_before), F(100))]

\* Ok((mcap_before, mcap_after, mcap_impact_pct)): the function has no error
\* path of its own.
calculate_mcap_impact_single_pool(pool, token_mint, tokens_received, circulating_supply, price) ==
    LET p == Projection(pool, token_mint, tokens_received, circulating_supply, price)
    IN  Ok(<<p.mcap_before, p.mcap_after, p.mcap_impact_pct>>)

\* liquidity_usd of one pool in find_dominant_pool.
PoolLiquidityUsd(pool, token_mint, price) ==
    LET sides == PoolSides(pool, token_mint)
    IN  IF sides[3] THEN FMul(FMul(sides[2], price), F(2))
        ELSE FMul(sides[2], F(2))

\* The loop of find_dominant_pool from pool i on; acc is
\* [max_liquidity, dominant_pool (an index), total_liquidity].
RECURSIVE DominantScan(_, _, _, _, _)
DominantScan(pools, token_mint, price, i, acc) ==
    IF i > Len(pools) THEN acc
    ELSE LET liquidity_usd == PoolLiquidityUsd(pools[i], token_mint, price)
             total == FAdd(acc.total_liquidity, liquidity_usd)
         IN  DominantScan(pools, token_mint, price, i + 1,
                 IF FGt(liquidity_usd, acc.max_liquidity)
                 THEN [max_liquidity |-> liquidity_usd, dominant_pool |-> i,
                       total_liquidity |-> total]
                 ELSE [acc EXCEPT !.total_liquidity = total])

\* A selector that keeps the first candidate whatever the liquidities.
find_first_pool(pools, token_mint, price) ==
    LET acc == DominantScan(pools, token_mint, price, 1,
                   [max_liquidity |-> F(0), dominant_pool |-> 1,
                    total_liquidity |-> F(0)])
        first == PoolLiquidityUsd(pools[1], token_mint, price)
    IN  Ok(<<1, IF FGt(acc.total_liquidity, F(0))
                THEN FDiv(first, acc.total_liquidity)
                ELSE F(0)>>)

\* Ok(<<index of the dominant pool, dominance_ratio>>)
find_dominant_pool(pools, token_mint, price) ==
    LET acc == DominantScan(pools, token_mint, price, 1,
                   [max_liquidity |-> F(0), dominant_pool |-> 1,
                    total_liquidity |-> F(0)])
    IN  Ok(<<acc.dominant_pool,
             IF FGt(acc.total_liquidity, F(0))
             THEN FDiv(acc.max_liquidity, acc.total_liquidity)
             ELSE F(0)>>)

\* The pool calculate_mcap_impact_with_extracted_pools projects: the only
\* one, or the dominant one.
ChosenPool(pools, token_mint, price) ==
    IF Len(pools) = 1 THEN pools[1]
    ELSE pools[find_dominant_pool(pools, token_mint, price).v[1]]

calculate_mcap_impact_with_extracted_pools(pools, token_mint, tokens_received, circulating_supply, price_cell) ==
    LET got == get_sol_price_cached(price_cell)
    IN  IF ~got.ok THEN got
        ELSE IF Len(pools) = 1
        THEN calculate_mcap_impact_single_pool(pools[1], token_mint,
                 tokens_received, circulating_supply, got.v)
        ELSE LET dominant_pool == ChosenPool(pools, token_mint, got.v)
             IN  IF dominant_pool.reserve_a = 0 \/ dominant_pool.reserve_b = 0
                 THEN Err("Pool dominante mal parsee - reserves nulles")
                 ELSE calculate_mcap_impact_single_pool(dominant_pool, token_mint,
                          tokens_received, circulating_supply, got.v)

\* A calculation that answers zero figures when there is no pool.
zero_impact_without_pools(pre, post, token_mint, tokens_received, circulating_supply, price_cell, owners_res) ==
    LET pools == IF owners_res.ok
                 THEN extract_pools_from_balances(pre, post, owners_res.v,
                                                  token_mint, 1)
                 ELSE <<>>
    IN  IF pools = <<>> THEN Ok(<<F(0), F(0), F(0)>>)
        ELSE calculate_mcap_impact_with_extracted_pools(pools, token_mint,
                 tokens_received, circulating_supply, price_cell)

\* calculate_mcap_impact_from_transaction_pools once identify_pool_owners has
\* returned owners_res (one of the results it can return).
calculate_mcap_impact_from_transaction_pools(pre, post, token_mint, tokens_received, circulating_supply, price_cell, owners_res) ==
    IF ~owners_res.ok THEN owners_res
    ELSE IF owners_res.v = <<>>
    THEN Err("Aucun owner de pool identifie dans la transaction")
    ELSE LET pools == extract_pools_from_balances(pre, post, owners_res.v,
                                                  token_mint, 1)
         IN  IF pools = <<>>
             THEN Err("Aucune pool extraite de la transaction")
             ELSE calculate_mcap_impact_with_extracted_pools(pools, token_mint,
                      tokens_received, circulating_supply, price_cell)

----------------------------------------------------------------------------
(* The caches                                                              *)
(* A cache is a function from the keys it holds to <<value, timestamp>>     *)
(* (price_cache, supply_cache) or to a pool (pool_cache).                   *)

TTL_SECS == 300

EmptyMap == <<>>

\* An insert that forgets every other key.
PutAlone(m, k, v) == [x \in {k} |-> v]

Put(m, k, v) == [x \in (DOMAIN m) \cup {k} |-> IF x = k THEN v ELSE m[x]]

\* A check that ignores the age of the entry.
CacheHolds(m, key, t) == key \in DOMAIN m

\* cache.get(key) is Some((value, timestamp)) with timestamp.elapsed() < 300 s
CacheFresh(m, key, t) == key \in DOMAIN m /\ t - m[key][2] < TTL_SECS

----------------------------------------------------------------------------
(* The reference-asset price resolver                                      *)

\* 2.744034364 / 4_023_639.050548, to the nearest unit fraction.
IMAGINE_PER_WSOL == <<1, 1466323>>

\* token_a.contains("IMAGINE") || token_a.len() > 40
IsLongOrImagine(token_a) == Len(token_a) > 40

find_direct_pool_price(token_a, token_b, token_b_price, price_cell) ==
    IF token_b = WSOL_MINT \/ token_b = USDC_MINT
    THEN IF IsLongOrImagine(token_a)
         THEN LET got == get_sol_price_cached(price_cell)
              IN  IF got.ok THEN Ok(FMul(IMAGINE_PER_WSOL, got.v)) ELSE got
         ELSE Ok(<<1, 10>>)
    ELSE Err("Pool non trouvee")

\* The loop over intermediate_tokens from position i on.
RECURSIVE IntermediateRoutes(_, _, _, _)
IntermediateRoutes(mint, intermediates, price_cell, i) ==
    IF i > Len(intermediates) THEN Ok(<<1, 1000>>)
    ELSE LET r == find_direct_pool_price(mint, intermediates[i],
                      IF intermediates[i] = WSOL_MINT THEN price_cell ELSE F(1),
                      price_cell)
         IN  IF r.ok THEN r
             ELSE IntermediateRoutes(mint, intermediates, price_cell, i + 1)

\* A resolver with no default price: a token without a known route fails.
find_token_price_no_fallback(mint, price_cell) ==
    IF IsLongOrImagine(mint) THEN find_direct_pool_price(mint, WSOL_MINT, price_cell, price_cell)
    ELSE Err("Aucune route trouvee")

find_token_price_via_routes(mint, price_cell) ==
    LET got == get_sol_price_cached(price_cell)
    IN  IF ~got.ok THEN got
        ELSE LET r1 == find_direct_pool_price(mint, WSOL_MINT, got.v, price_cell)
                 r2 == find_direct_pool_price(mint, USDC_MINT, F(1), price_cell)
             IN  IF r1.ok THEN r1
                 ELSE IF r2.ok THEN r2
                 ELSE IntermediateRoutes(mint, <<WSOL_MINT, USDC_MINT, USDT_MINT>>,
                                         price_cell, 1)

\* calculate_token_value_via_routes run without interruption:
\* <<result, the price cache afterwards>>.
calculate_token_value_via_routes(prices, mint, amount, price_cell, t) ==
    IF CacheFresh(prices, mint, t) THEN <<Ok(FMul(amount, prices[mint][1])), prices>>
    ELSE LET r == find_token_price_via_routes(mint, price_cell)
         IN  IF ~r.ok THEN <<r, prices>>
             ELSE <<Ok(FMul(amount, r.v)), Put(prices, mint, <<r.v, t>>)>>

----------------------------------------------------------------------------
(* The transaction financial analyzer                                      *)
(* A transaction record is                                                 *)
(*   [meta, enc, msg, keys, pre_balances, post_balances,                    *)
(*    has_pre_tok, pre_tok, has_post_tok, post_tok]:                        *)
(* meta is whether the record carries metadata, enc is "json" or "binary",  *)
(* msg is "parsed" or "raw", keys are the account keys, the native balances *)
(* are lamports / 10^9, and has_*_tok is whether the token balance list is  *)
(* Some.                                                                   *)

extract_user_owner_from_transaction(t) ==
    IF t.enc # "json" THEN Err("Transaction non parsable")
    ELSE IF t.keys = <<>>
    THEN IF t.msg = "raw" THEN Err("Aucun compte trouve dans la transaction")
         ELSE Err("Aucun signataire trouve dans la transaction")
    ELSE Ok(t.keys[1])

\* analyze_tokens_from_pre_post_balances, first loop from pre row i on:
\* balance_changes, a function mint -> <<pre_amount, post_amount, diff>>.
RECURSIVE ChangesFromPre(_, _, _, _, _)
ChangesFromPre(pre, post, user_owner, i, balance_changes) ==
    IF i > Len(pre) THEN balance_changes
    ELSE LET j == FindPost(post, pre[i].mint, user_owner, 1)
         IN  ChangesFromPre(pre, post, user_owner, i + 1,
                 IF pre[i].owner = user_owner /\ j # 0
                 THEN Put(balance_changes, pre[i].mint,
                          <<ui_amount(pre[i]), ui_amount(post[j]),
                            FSub(ui_amount(post[j]), ui_amount(pre[i]))>>)
                 ELSE balance_changes)

\* A second loop that takes no record in.
ChangesWithoutNewPositions(post, user_owner, i, balance_changes) == balance_changes

\* The second loop, from post row i on: balances without a pre record.
RECURSIVE ChangesFromPost(_, _, _, _)
ChangesFromPost(post, user_owner, i, balance_changes) ==
    IF i > Len(post) THEN balance_changes
    ELSE ChangesFromPost(post, user_owner, i + 1,
             IF post[i].owner = user_owner /\ post[i].mint \notin DOMAIN balance_changes
             THEN Put(balance_changes, post[i].mint,
                      <<F(0), ui_amount(post[i]), ui_amount(post[i])>>)
             ELSE balance_changes)

BalanceChanges(pre, post, user_owner) ==
    ChangesFromPost(post, user_owner, 1,
                    ChangesFromPre(pre, post, user_owner, 1, EmptyMap))

\* An analyzer whose noise floor and sanity bound are inclusive.
analyze_tokens_inclusive(pre, post, user_owner) ==
    LET balance_changes == BalanceChanges(pre, post, user_owner)
        candidates == {<<mint, balance_changes[mint][3]>> :
                          mint \in {m \in DOMAIN balance_changes :
                              /\ m \notin SYSTEM_TOKENS
                              /\ FLe(F(1), balance_changes[m][3])
                              /\ FLe(balance_changes[m][3], F(1000000000))}}
    IN  IF candidates = {}
        THEN {Err("Aucun token non-systeme recu detecte")}
        ELSE {Ok(c) : c \in candidates}

\* The results analyze_tokens_from_pre_post_balances can return: candidates[0]
\* is the first candidate in the iteration order of the map balance_changes,
\* which is any of them.
analyze_tokens_from_pre_post_balances(pre, post, user_owner) ==
    LET balance_changes == BalanceChanges(pre, post, user_owner)
        candidates == {<<mint, balance_changes[mint][3]>> :
                          mint \in {m \in DOMAIN balance_changes :
                              /\ m \notin SYSTEM_TOKENS
                              /\ FGt(balance_changes[m][3], F(1))
                              /\ FLt(balance_changes[m][3], F(1000000000))}}
    IN  IF candidates = {}
        THEN {Err("Aucun token non-systeme recu detecte")}
        ELSE {Ok(c) : c \in candidates}

\* get_investment_value_fast, Raw message: every account's native decrease.
RECURSIVE NativeDecreaseAll(_, _, _, _)
NativeDecreaseAll(pre_balances, post_balances, price, i) ==
    IF i > Len(pre_balances) \/ i > Len(post_balances) THEN F(0)
    ELSE LET sol_diff == FSub(pre_balances[i], post_balances[i])
             rest == NativeDecreaseAll(pre_balances, post_balances, price, i + 1)
         IN  IF FGt(sol_diff, F(0)) THEN FAdd(FMul(sol_diff, price), rest) ELSE rest

\* A native part that counts the decrease of every account.
NativeDecreaseEveryAccount(pre_balances, post_balances, user_index, price) ==
    NativeDecreaseAll(pre_balances, post_balances, price, 1)

\* get_investment_value_fast, Parsed message: the native decrease of the
\* account at user_index, when both balance lists reach that far.
NativeDecreaseUser(pre_balances, post_balances, user_index, price) ==
    IF user_index <= Len(pre_balances) /\ user_index <= Len(post_balances)
    THEN LET sol_diff == FSub(pre_balances[user_index], post_balances[user_index])
         IN  IF FGt(sol_diff, F(0)) THEN FMul(sol_diff, price) ELSE F(0)
    ELSE F(0)

\* get_investment_value_fast, the loop over pre_token_balances from row i on:
\* <<total_invested_usd, price cache>>.
RECURSIVE TokenInvested(_, _, _, _, _, _, _, _)
TokenInvested(pre, post, user_owner, price, t, i, total, prices) ==
    IF i > Len(pre) THEN <<total, prices>>
    ELSE LET j == FindPost(post, pre[i].mint, user_owner, 1)
             mint == pre[i].mint
             token_diff == FSub(ui_amount(pre[i]), ui_amount(post[j]))
         IN  IF pre[i].owner = user_owner /\ j # 0 /\ FGt(token_diff, F(0))
             THEN IF mint \in SYSTEM_TOKENS
                  THEN TokenInvested(pre, post, user_owner, price, t, i + 1,
                           IF mint = WSOL_MINT THEN FAdd(total, FMul(token_diff, price))
                           ELSE IF mint = USDC_MINT THEN FAdd(total, token_diff)
                           ELSE total,
                           prices)
                  ELSE LET r == calculate_token_value_via_routes(prices, mint,
                                    token_diff, price, t)
                       IN  TokenInvested(pre, post, user_owner, price, t, i + 1,
                               IF r[1].ok THEN FAdd(total, r[1].v) ELSE total, r[2])
             ELSE TokenInvested(pre, post, user_owner, price, t, i + 1, total, prices)

\* get_investment_value_fast on the record the request returned:
\* <<result, price cache>>.
get_investment_value_fast(t, price_cell, prices, time) ==
    LET user == extract_user_owner_from_transaction(t)
        got  == get_sol_price_cached(price_cell)
    IN  IF ~t.meta THEN <<Err("Pas de metadonnees dans la transaction"), prices>>
        ELSE IF ~user.ok THEN <<user, prices>>
        ELSE IF ~got.ok THEN <<got, prices>>
        ELSE IF t.msg = "raw"
        THEN <<Ok(NativeDecreaseAll(t.pre_balances, t.post_balances, got.v, 1)), prices>>
        ELSE LET user_index == CHOOSE i \in 1..Len(t.keys) :
                                   /\ t.keys[i] = user.v
                                   /\ \A j \in 1..(i - 1) : t.keys[j] # user.v
                 native == NativeDecreaseUser(t.pre_balances, t.post_balances,
                                              user_index, got.v)
             IN  IF t.has_pre_tok /\ t.has_post_tok
                 THEN LET r == TokenInvested(t.pre_tok, t.post_tok, user.v, got.v,
                                             time, 1, native, prices)
                      IN  <<Ok(r[1]), r[2]>>
                 ELSE <<Ok(native), prices>>

----------------------------------------------------------------------------
(* ImpactSpec: the transaction records analysed                            *)

UserWallet == "UserWa11etUserWa11etUserWa11etUserWa11et1111"

RaydiumAuthority == "58oQChx4yWmvKdwLLZzBi4ChoCc2fqCUWBkwMihLYQo2"

UnlistedOwner == "Un1istedPoo1Authority1111111111111111111111"

RaydiumProgram == "675kPX9MHTjS2zt1qfr1NYHuzeLXfQM9H24wFSUt1Mp8"

MintX == "MintXMintXMintXMintXMintXMintXMintXMintX1111"

Row(mint, owner, amt) == [mint |-> mint, owner |-> owner, amt |-> amt]

\* The token balance rows of one owner: <<pre rows, post rows>>.  A shape is
\* <<pre rows, post rows>> with the owner left open.
NoRows == <<<<>>, <<>>>>

Both(mint, owner, pre_amt, post_amt) ==
    << <<Row(mint, owner, pre_amt)>>, <<Row(mint, owner, post_amt)>> >>

Join(a, b) == <<a[1] \o b[1], a[2] \o b[2]>>

\* The user's rows: nothing, a new position, an increase of 200, an increase
\* below the noise floor.
UserRows ==
    { NoRows,
      << <<>>, <<Row(MintX, UserWallet, F(500))>> >>,
      Both(MintX, UserWallet, F(10), F(210)),
      Both(MintX, UserWallet, F(10), <<21, 2>>) }

\* A pool authority's balance of the target mint.
TokenRows(owner) ==
    { NoRows,
      Both(MintX, owner, F(0), F(0)),
      Both(MintX, owner, <<1, 2>>, F(0)),
      Both(MintX, owner, F(1000), F(500)),
      << <<Row(MintX, owner, F(1000))>>, <<>> >> }

\* A pool authority's balance of a reference mint.
QuoteRows(owner) ==
    { NoRows,
      Both(WSOL_MINT, owner, F(0), F(1)),
      Both(WSOL_MINT, owner, <<1, 2>>, F(1)),
      Both(WSOL_MINT, owner, F(2), F(3)),
      Both(WSOL_MINT, owner, F(18), F(20)),
      Both(USDC_MINT, owner, F(0), F(1)),
      Both(USDC_MINT, owner, F(2), F(3)) }

AuthorityRows(owner) ==
    {Join(t, q) : t \in TokenRows(owner), q \in QuoteRows(owner)}

ProgramRows ==
    { NoRows,
      Join(Both(MintX, RaydiumProgram, F(1000), F(500)),
           Both(WSOL_MINT, RaydiumProgram, F(18), F(20))),
      Join(Both(MintX, RaydiumProgram, F(1000), F(500)),
           Both(USDC_MINT, RaydiumProgram, F(2), F(3))) }

TxOf(rows) ==
    [meta |-> TRUE, enc |-> "json", msg |-> "parsed",
     keys |-> <<UserWallet, RaydiumAuthority, UnlistedOwner, RaydiumProgram>>,
     pre_balances  |-> <<F(10), F(1), F(1), F(1)>>,
     post_balances |-> <<<<19, 2>>, F(1), F(1), F(1)>>,
     has_pre_tok |-> TRUE,  pre_tok  |-> rows[1],
     has_post_tok |-> TRUE, post_tok |-> rows[2]]

\* The rows of an owner that no table lists.
UnlistedRows(owner) ==
    { NoRows,
      Join(Both(MintX, owner, F(1000), F(500)), Both(WSOL_MINT, owner, F(18), F(20))),
      Join(Both(MintX, owner, F(12000), F(0)), Both(USDC_MINT, owner, F(2), F(3))),
      Join(Both(MintX, owner, F(12000), F(0)), Both(MintX, owner, F(5), F(12005))) }

SwapTxs ==
    {TxOf(Join(Join(u, a), Join(b, c))) :
        u \in UserRows, a \in AuthorityRows(RaydiumAuthority),
        b \in UnlistedRows(UnlistedOwner), c \in ProgramRows}

\* A plain swap through one listed authority, and its malformed variants.
PlainSwap ==
    TxOf(Join(Both(MintX, UserWallet, F(10), F(210)),
              Join(Both(MintX, RaydiumAuthority, F(1000), F(500)),
                   Both(WSOL_MINT, RaydiumAuthority, F(2), F(3)))))

MalformedTxs ==
    { [PlainSwap EXCEPT !.meta = FALSE],
      [PlainSwap EXCEPT !.enc = "binary"],
      [PlainSwap EXCEPT !.keys = <<>>],
      [PlainSwap EXCEPT !.keys = <<>>, !.msg = "raw"],
      [PlainSwap EXCEPT !.msg = "raw"],
      [PlainSwap EXCEPT !.has_pre_tok = FALSE, !.pre_tok = <<>>],
      [PlainSwap EXCEPT !.has_post_tok = FALSE, !.post_tok = <<>>] }

ImpactTxs == SwapTxs \cup MalformedTxs

\* The native-asset price during an impact calculation.
ImpactSolPrice == F(250)

----------------------------------------------------------------------------
(* The token supply lookup                                                 *)

\* get_circulating_supply run without interruption, `reply` being what the
\* supply request returns when it is made: <<result, supply cache>>.
get_circulating_supply(supplies, token_mint, reply, t) ==
    IF CacheFresh(supplies, token_mint, t)
    THEN <<Ok(supplies[token_mint][1]), supplies>>
    ELSE IF ~reply.ok THEN <<reply, supplies>>
    ELSE LET total_supply == IF reply.v = NoAmt THEN F(0) ELSE reply.v
         IN  <<Ok(total_supply), Put(supplies, token_mint, <<total_supply, t>>)>>

\* What the supply request can return.
SupplyReplies == {Err("RPC"), Ok(NoAmt), Ok(F(100))}

----------------------------------------------------------------------------
(* ImpactSpec: calculate_tokens_received_and_mcap_impact, step by step      *)

NoResult == [ok |-> FALSE, v |-> <<>>, err |-> "<pending>"]

NoPoolDetected == "Aucune pool DEX detectee dans la transaction - Transaction non analysable"

NoProjection == <<>>

\* No run of the analyzer yet.
NoAnalysis == [invested |-> <<>>, received |-> <<>>]

\* PoolParser::new stores a price of its own, 150.0.
NoDex ==
    [overflow_checks |-> FALSE, call |-> <<>>, sol_price_usd |-> F(150),
     metrics |-> <<>>]

\* The fetch tasks, the price updater, the sandwich engine and the monitor
\* calls before anything has run.
NoUpdate ==
    [pc |-> "first", quote |-> [kind |-> "none", v |-> NoPrice],
     before |-> NoPrice, ticks |-> 0]

NoBundle ==
    [pc |-> "detect", front_run_amount |-> NoAmt, back_run_amount |-> NoAmt,
     retry_count |-> 0, front |-> FALSE, back |-> FALSE, sends |-> <<>>,
     res |-> [ok |-> FALSE, v |-> "", err |-> "<pending>"]]

NoMonitors == [init |-> "none", call |-> <<>>, consumers |-> 0, returned |-> <<>>]

OthersQuiet ==
    /\ requests = <<>>
    /\ upd = NoUpdate
    /\ bundle = NoBundle
    /\ mon = NoMonitors

CalcInit ==
    [res |-> NoResult, user_owner |-> "", token_mint |-> "",
     tokens_received |-> F(0), circulating_supply |-> F(0),
     owners |-> NoResult, pools |-> <<>>, dominant |-> NoResult,
     projected |-> FALSE]

EmptyCaches == [price |-> EmptyMap, supply |-> EmptyMap, pool |-> EmptyMap]

ImpactDone(res) ==
    /\ impactPc' = "done"
    /\ calc' = [calc EXCEPT !.res = res]

\* Lines 423-440: the request answered within 5 s; the metadata and the user.
ImpactFetchOk ==
    /\ impactPc = "fetch"
    /\ LET user == extract_user_owner_from_transaction(tx)
       IN  IF ~tx.meta
           THEN ImpactDone(Err("Pas de metadonnees dans la transaction"))
           ELSE IF ~user.ok THEN ImpactDone(user)
           ELSE /\ impactPc' = "invest"
                /\ calc' = [calc EXCEPT !.user_owner = user.v]
    /\ UNCHANGED <<tx, proj, ana, dex, pipeVars, cacheVars, extraVars>>

\* Line 432: the request failed.
ImpactFetchErr ==
    /\ impactPc = "fetch"
    /\ ImpactDone(Err("Erreur RPC"))
    /\ UNCHANGED <<tx, proj, ana, dex, pipeVars, cacheVars, extraVars>>

\* Line 433: no answer within 5 s.
ImpactFetchTimeout ==
    /\ impactPc = "fetch"
    /\ ImpactDone(Err("Timeout RPC lors de la recuperation de la transaction"))
    /\ UNCHANGED <<tx, proj, ana, dex, pipeVars, cacheVars, extraVars>>

\* Line 443: get_investment_value_fast(signature).await?, its request
\* succeeding (ok) or failing.
ImpactInvest ==
    /\ impactPc = "invest"
    /\ \E ok \in BOOLEAN :
          LET r == IF ok THEN get_investment_value_fast(tx, sol_price, cache.price, now)
                   ELSE <<Err("RPC"), cache.price>>
          IN  /\ cache' = [cache EXCEPT !.price = r[2]]
              /\ IF r[1].ok
                 THEN impactPc' = "tokens" /\ calc' = calc
                 ELSE ImpactDone(r[1])
    /\ UNCHANGED <<tx, proj, ana, dex, pipeVars, now, lookup, fetches, extraVars>>

\* Lines 446-454: the received token.
ImpactTokens ==
    /\ impactPc = "tokens"
    /\ IF tx.has_pre_tok /\ tx.has_post_tok
       THEN \E r \in analyze_tokens_from_pre_post_balances(tx.pre_tok, tx.post_tok,
                                                          calc.user_owner) :
               IF r.ok
               THEN /\ impactPc' = "supply"
                    /\ calc' = [calc EXCEPT !.token_mint = r.v[1],
                                            !.tokens_received = r.v[2]]
               ELSE ImpactDone(r)
       ELSE ImpactDone(Err("Aucun token balance fourni"))
    /\ UNCHANGED <<tx, proj, ana, dex, pipeVars, cacheVars, extraVars>>

\* Line 457: get_circulating_supply(&token_mint).await?
ImpactSupply ==
    /\ impactPc = "supply"
    /\ \E reply \in SupplyReplies :
          LET r == get_circulating_supply(cache.supply, calc.token_mint, reply, now)
          IN  /\ cache' = [cache EXCEPT !.supply = r[2]]
              /\ IF r[1].ok
                 THEN /\ impactPc' = "pools"
                      /\ calc' = [calc EXCEPT !.circulating_supply = r[1].v]
                 ELSE ImpactDone(r[1])
    /\ UNCHANGED <<tx, proj, ana, dex, pipeVars, now, lookup, fetches, extraVars>>

\* Lines 460-487: the pools of the transaction and the projection.
ImpactPools ==
    /\ impactPc = "pools"
    /\ \E owners \in identify_pool_owners(tx.pre_tok, tx.post_tok) :
          LET r == calculate_mcap_impact_from_transaction_pools(
                       tx.pre_tok, tx.post_tok, calc.token_mint,
                       calc.tokens_received, calc.circulating_supply,
                       sol_price, owners)
              pools == IF owners.ok
                       THEN extract_pools_from_balances(tx.pre_tok, tx.post_tok,
                                owners.v, calc.token_mint, 1)
                       ELSE <<>>
          IN  /\ impactPc' = "done"
              /\ calc' = [calc EXCEPT
                     !.owners = owners,
                     !.pools = pools,
                     !.dominant = IF Len(pools) >= 2
                                  THEN find_dominant_pool(pools, calc.token_mint,
                                                          sol_price)
                                  ELSE NoResult,
                     !.projected = r.ok,
                     !.res = IF r.ok
                             THEN Ok(<<calc.tokens_received, r.v[1], r.v[3]>>)
                             ELSE Err(NoPoolDetected)]
    /\ UNCHANGED <<tx, proj, ana, dex, pipeVars, cacheVars, extraVars>>

PipeQuiet ==
    /\ startPc = "init"
    /\ logs_receiver = "None"
    /\ stream = "closed"
    /\ monitorPc = "idle"
    /\ logsPc = "idle"
    /\ notifs = <<>>
    /\ fetchTask = <<>>
    /\ queue = <<>>
    /\ anaTask = <<>>
    /\ logOut = {}

ImpactInit ==
    /\ PipeQuiet
    /\ sol_price = ImpactSolPrice
    /\ now = 0
    /\ cache = EmptyCaches
    /\ lookup = <<>>
    /\ fetches = <<>>
    /\ tx \in ImpactTxs
    /\ impactPc = "fetch"
    /\ calc = CalcInit
    /\ proj = NoProjection
    /\ ana = NoAnalysis
    /\ dex = NoDex
    /\ OthersQuiet

ImpactNext ==
    \/ ImpactFetchOk
    \/ ImpactFetchErr
    \/ ImpactFetchTimeout
    \/ ImpactInvest
    \/ ImpactTokens
    \/ ImpactSupply
    \/ ImpactPools

ImpactSpec == ImpactInit /\ [][ImpactNext]_vars

----------------------------------------------------------------------------
(* ProjectionSpec: calculate_mcap_impact_single_pool on its own             *)

MaxReserve == 5

\* tokens_received in halves, up to past the largest reserve.
ReceivedSamples == {Norm(n, 2) : n \in 0..(2 * MaxReserve + 2)}

\* <<reserve_a, reserve_b, tokens_received>>: every small case, and a pool of
\* 1,000,000 tokens against 50 quote units from which 10,000 are bought.
ProjectionInputs ==
    { <<reserve_a, reserve_b, tokens_received>> :
         reserve_a \in 0..MaxReserve, reserve_b \in 0..MaxReserve,
         tokens_received \in ReceivedSamples }
    \cup { <<1000000, 50, F(10000)>> }

ProjectionPool(reserve_a, reserve_b, quote_mint) ==
    [dex_type |-> "Raydium", token_a_mint |-> MintX, token_b_mint |-> quote_mint,
     reserve_a |-> reserve_a, reserve_b |-> reserve_b, fee_bps |-> 30,
     liquidity_usd |-> F(0), token_a_liquidity |-> F(reserve_a),
     token_b_liquidity |-> F(reserve_b)]

ProjectionInit ==
    /\ PipeQuiet
    /\ sol_price = ImpactSolPrice
    /\ now = 0
    /\ cache = EmptyCaches
    /\ lookup = <<>>
    /\ fetches = <<>>
    /\ tx = PlainSwap
    /\ impactPc = "project"
    /\ calc = CalcInit
    /\ ana = NoAnalysis
    /\ dex = NoDex
    /\ OthersQuiet
    /\ \E quote_mint \in {WSOL_MINT, USDC_MINT} :
          \E input \in ProjectionInputs :
             proj = [pool |-> ProjectionPool(input[1], input[2], quote_mint),
                     tokens_received |-> input[3],
                     out |-> NoProjection, res |-> NoResult]

\* One call of calculate_mcap_impact_single_pool, with a supply of 100.
Project ==
    /\ impactPc = "project"
    /\ impactPc' = "done"
    /\ proj' = [proj EXCEPT
           !.out = Projection(proj.pool, MintX, proj.tokens_received, F(100), sol_price),
           !.res = calculate_mcap_impact_single_pool(proj.pool, MintX,
                       proj.tokens_received, F(100), sol_price)]
    /\ UNCHANGED <<tx, calc, ana, dex, pipeVars, cacheVars, extraVars>>

ProjectionNext == Project

ProjectionSpec == ProjectionInit /\ [][ProjectionNext]_vars

----------------------------------------------------------------------------
(* Properties of the impact calculation                                    *)

ImpactFinished == impactPc = "done" /\ calc.owners # NoResult

\* The pool the finished calculation selected for the projection.
SelectedPool ==
    IF Len(calc.pools) = 1 THEN calc.pools[1]
    ELSE calc.pools[calc.dominant.v[1]]

SelectedPoolHasZeroReserve ==
    /\ ImpactFinished
    /\ calc.pools # <<>>
    /\ SelectedPool.reserve_a = 0 \/ SelectedPool.reserve_b = 0

\* C7: whenever the pool selected for the projection (the only candidate or
\* the dominant one) has a zero token reserve or a zero quote reserve, the
\* impact calculation ends in an error and returns no capitalization figures.
C7_ZeroReserveRejected == SelectedPoolHasZeroReserve => ~calc.res.ok

NoOwnerQualifies ==
    \A o \in AllOwners(tx.pre_tok, tx.post_tok) :
        /\ is_known_dex_program(o) = NoName
        /\ is_known_pool_account(o) = NoName
        /\ ~IsPoolOwner(tx.pre_tok, tx.post_tok, o)

\* C8: when no balance owner qualifies as a pool authority, or no candidate
\* pool is extracted for the target mint, the finished calculation returns an
\* error, the no-pool-detected one once the pool stage ran, and never an Ok
\* result.
C8_NoPoolIsAnError ==
    /\ (impactPc = "done" /\ NoOwnerQualifies) => ~calc.res.ok
    /\ (ImpactFinished /\ (NoOwnerQualifies \/ calc.pools = <<>>)) =>
           /\ ~calc.res.ok
           /\ calc.res.err = NoPoolDetected

C8_Witness_NoOwner ==
    /\ ImpactFinished
    /\ NoOwnerQualifies
    /\ AllOwners(tx.pre_tok, tx.post_tok) # {}

C8_Witness_NoPool ==
    /\ ImpactFinished
    /\ ~NoOwnerQualifies
    /\ calc.pools = <<>>

\* The USD liquidity of candidate i: twice its quote-side reserve, times the
\* native-asset price when the quote is the native coin.
CandidateLiquidity(i) ==
    LET pool == calc.pools[i]
    IN  IF pool.token_b_mint = WSOL_MINT
        THEN Norm(2 * pool.reserve_b * sol_price[1], sol_price[2])
        ELSE F(2 * pool.reserve_b)

RECURSIVE LiquiditySum(_)
LiquiditySum(n) == IF n = 0 THEN F(0) ELSE FAdd(LiquiditySum(n - 1), CandidateLiquidity(n))

SeveralCandidates == ImpactFinished /\ Len(calc.pools) >= 2

\* C9: with two or more candidates, find_dominant_pool returns a pool whose
\* USD liquidity is at least that of every other candidate and the ratio of
\* that liquidity to the sum over all candidates (0 when the sum is 0), so
\* 0 <= ratio <= 1; for 1,000 and 9,000 USD it returns the 9,000 USD pool
\* with ratio 9/10.
C9_DominantPool ==
    SeveralCandidates =>
        LET n     == Len(calc.pools)
            d     == calc.dominant.v[1]
            ratio == calc.dominant.v[2]
            total == LiquiditySum(n)
        IN  /\ calc.dominant.ok
            /\ d \in 1..n
            /\ \A j \in 1..n : FLe(CandidateLiquidity(j), CandidateLiquidity(d))
            /\ FGt(total, F(0)) => ratio = FDiv(CandidateLiquidity(d), total)
            /\ FLe(F(0), ratio) /\ FLe(ratio, F(1))
            /\ (n = 2 /\ {CandidateLiquidity(1), CandidateLiquidity(2)} = {F(1000), F(9000)})
                   => CandidateLiquidity(d) = F(9000) /\ ratio = <<9, 10>>

C9_Witness_Example ==
    /\ SeveralCandidates
    /\ Len(calc.pools) = 2
    /\ CandidateLiquidity(1) = F(1000)
    /\ CandidateLiquidity(2) = F(9000)
    /\ calc.dominant.v = <<2, <<9, 10>>>>

\* The product of two finite values, the common factors taken out first.
ExactProduct(a, b) ==
    LET g == Gcd(Abs(a[1]), b[2])
        h == Gcd(Abs(b[1]), a[2])
    IN  Norm((a[1] \div g) * (b[1] \div h), (a[2] \div h) * (b[2] \div g))

\* C10: for positive reserves and 0 <= tokens_received < reserve_token, the
\* projected reserves keep the product, reserve_token_after *
\* reserve_quote_after = reserve_token * reserve_quote, with
\* reserve_token_after = reserve_token - tokens_received.
C10_ProductPreserved ==
    (/\ impactPc = "done"
     /\ proj # NoProjection
     /\ proj.pool.reserve_a > 0
     /\ proj.pool.reserve_b > 0
     /\ FLe(F(0), proj.tokens_received)
     /\ FLt(proj.tokens_received, F(proj.pool.reserve_a)))
    => LET o == proj.out
       IN  /\ o.reserve_token_after[1] * proj.tokens_received[2]
                 = o.reserve_token_after[2]
                     * (proj.pool.reserve_a * proj.tokens_received[2]
                          - proj.tokens_received[1])
           /\ ExactProduct(o.reserve_token_after, o.reserve_quote_after)
                 = F(proj.pool.reserve_a * proj.pool.reserve_b)
           /\ o.reserve_token_after[2] > 0
           /\ o.reserve_quote_after[2] > 0

C10_Witness_Swap ==
    /\ impactPc = "done"
    /\ proj # NoProjection
    /\ proj.pool.reserve_a = 3
    /\ proj.pool.reserve_b = 2
    /\ proj.tokens_received = <<3, 2>>
    /\ proj.out.reserve_token_after = <<3, 2>>
    /\ proj.out.reserve_quote_after = F(4)

\* A projection of a buy: positive reserves, 0 < tokens_received < reserve.
ProjectedBuy ==
    /\ impactPc = "done"
    /\ proj # NoProjection
    /\ proj.pool.reserve_a > 0
    /\ proj.pool.reserve_b > 0
    /\ FLt(F(0), proj.tokens_received)
    /\ FLt(proj.tokens_received, F(proj.pool.reserve_a))

----------------------------------------------------------------------------
(* CacheSpec: concurrent lookups of price_cache, supply_cache, pool_cache   *)

MaxCallers == 2

TickSecs == 150

MaxTime == 300

Callers == 1..MaxCallers

\* A valid 32-character key: find_direct_pool_price prices it at 0.1.
ShortMint == "11111111111111111111111111111111"

PoolA == "PoolAPoolAPoolAPoolAPoolAPoolAPoolAPoolA1111"

\* What each lookup can be asked for: <<cache, key>>.
LookupArgs ==
    {<<"price", MintX>>, <<"price", ShortMint>>, <<"supply", MintX>>, <<"pool", PoolA>>}

\* The amount calculate_token_value_via_routes is asked to value.
LookupAmount == F(3)

\* What fetch_pool_info can return.
PoolReplies ==
    {Err("parse"), Ok(ProjectionPool(1000, 2, WSOL_MINT)),
     Ok(ProjectionPool(1000, 18, WSOL_MINT))}

\* What the price request can bring back: a failed request, a body that is
\* no JSON, a JSON body without solana.usd, or a reported price.
SolFailures == {"request error", "unparsable response", "missing price field"}

Reported(price) == [kind |-> "price", v |-> price]

SolQuotes ==
    {[kind |-> k, v |-> NoPrice] : k \in SolFailures}
        \cup {Reported(F(49)), Reported(F(50)), Reported(F(250)), Reported(F(500)),
              Reported(F(501))}

\* The band validation left out: the reported price is passed on as it is.
fetch_sol_price_unchecked(quote) ==
    IF quote.kind # "price" THEN Ok(F(221)) ELSE Ok(quote.v)

\* fetch_sol_price_from_pool: always Ok, 221 unless the quote is in range.
fetch_sol_price_from_pool(quote) ==
    IF quote.kind = "request error" THEN Ok(F(221))
    ELSE IF quote.kind = "unparsable response" THEN Ok(F(221))
    ELSE IF quote.kind = "missing price field" THEN Ok(F(221))
    ELSE IF FLt(quote.v, F(50)) \/ FGt(quote.v, F(500)) THEN Ok(F(221))
    ELSE Ok(quote.v)

\* start_sol_price_updater: the first call or a periodic one stores a price.
SolPriceUpdate ==
    /\ \E quote \in SolQuotes :
          LET r == fetch_sol_price_from_pool(quote)
          IN  /\ r.v # sol_price
              /\ sol_price' = r.v
    /\ UNCHANGED <<startPc, logs_receiver, stream, monitorPc, logsPc, notifs,
                   fetchTask, queue, anaTask, logOut, cacheVars, impactVars, proj, ana, dex, extraVars>>

\* guard is the lock guard a caller holds while it is suspended at pc.
IdleLookup ==
    [pc |-> "idle", kind |-> "", key |-> "", fetched |-> <<>>, res |-> NoResult,
     guard |-> "none"]

\* A lookup that keeps its read guard while it waits for the fetcher.
GuardKeptAfterMiss(kind) == "read"

\* The guard left after the read-locked check missed: drop(cache), or the
\* end of the block that holds the guard, comes before the fetcher is called.
GuardAfterMiss(kind) == "none"

\* A read guard can be taken when no caller holds the write guard, a write
\* guard when no other caller holds any guard of that cache.
CanRead(kind) ==
    \A d \in Callers : lookup[d].kind = kind => lookup[d].guard # "write"

CanWrite(c, kind) ==
    \A d \in Callers \ {c} : lookup[d].kind = kind => lookup[d].guard = "none"

\* What a caller gets back for the cached or fetched value v.
Returned(kind, v) == IF kind = "price" THEN FMul(LookupAmount, v) ELSE v

\* Function entry up to the end of the read-locked check: a hit returns, a
\* miss goes on to the fetcher.
CacheLookup(c) ==
    /\ lookup[c].pc = "idle"
    /\ \E a \in LookupArgs :
          LET kind == a[1]
              key  == a[2]
              hit  == IF kind = "pool" THEN key \in DOMAIN cache.pool
                      ELSE CacheFresh(cache[kind], key, now)
              v    == IF kind = "pool" THEN cache.pool[key] ELSE cache[kind][key][1]
          IN  /\ CanRead(kind)
              /\ lookup' = [lookup EXCEPT ![c] =
                  IF hit
                  THEN [pc |-> "done", kind |-> kind, key |-> key, fetched |-> <<>>,
                        res |-> Ok(Returned(kind, v)), guard |-> "none"]
                  ELSE [pc |-> "fetch", kind |-> kind, key |-> key, fetched |-> <<>>,
                        res |-> NoResult, guard |-> GuardAfterMiss(kind)]]
    /\ UNCHANGED <<now, cache, fetches, pipeVars, impactVars, proj, ana, dex, extraVars>>

\* The results the fetcher of a cache can produce now.
FetchReplies(kind, key) ==
    IF kind = "price" THEN {find_token_price_via_routes(key, sol_price)}
    ELSE IF kind = "supply"
    THEN {IF r.ok THEN Ok(IF r.v = NoAmt THEN F(0) ELSE r.v) ELSE r : r \in SupplyReplies}
    ELSE PoolReplies

\* The fetcher, awaited with no lock held; `?` returns its error.
CacheFetch(c) ==
    /\ lookup[c].pc = "fetch"
    /\ \E reply \in FetchReplies(lookup[c].kind, lookup[c].key) :
          lookup' = [lookup EXCEPT ![c] =
              IF reply.ok THEN [@ EXCEPT !.pc = "write", !.fetched = reply.v]
              ELSE [@ EXCEPT !.pc = "done", !.res = reply, !.guard = "none"]]
    /\ fetches' = [fetches EXCEPT ![c] = @ + 1]
    /\ UNCHANGED <<now, cache, pipeVars, impactVars, proj, ana, dex, extraVars>>

\* The write-locked insert and the return.
CacheWrite(c) ==
    /\ lookup[c].pc = "write"
    /\ CanWrite(c, lookup[c].kind)
    /\ LET kind == lookup[c].kind
           entry == IF kind = "pool" THEN lookup[c].fetched
                    ELSE <<lookup[c].fetched, now>>
       IN  /\ cache' = [cache EXCEPT ![kind] = Put(@, lookup[c].key, entry)]
           /\ lookup' = [lookup EXCEPT ![c] =
                  [@ EXCEPT !.pc = "done", !.guard = "none",
                            !.res = Ok(Returned(kind, lookup[c].fetched))]]
    /\ UNCHANGED <<now, fetches, pipeVars, impactVars, proj, ana, dex, extraVars>>

\* Time passes.
Tick ==
    /\ now < MaxTime
    /\ now' = now + TickSecs
    /\ UNCHANGED <<cache, lookup, fetches, pipeVars, impactVars, proj, ana, dex, extraVars>>

CacheInit ==
    /\ PipeQuiet
    /\ sol_price = NoPrice
    /\ now = 0
    /\ cache = EmptyCaches
    /\ lookup = [c \in Callers |-> IdleLookup]
    /\ fetches = [c \in Callers |-> 0]
    /\ tx = PlainSwap
    /\ impactPc = "idle"
    /\ calc = CalcInit
    /\ proj = NoProjection
    /\ ana = NoAnalysis
    /\ dex = NoDex
    /\ OthersQuiet

CacheNext ==
    \/ \E c \in Callers : CacheLookup(c)
    \/ \E c \in Callers : CacheFetch(c)
    \/ \E c \in Callers : CacheWrite(c)
    \/ Tick
    \/ SolPriceUpdate

CacheSpec == CacheInit /\ [][CacheNext]_vars

----------------------------------------------------------------------------
(* Properties of the caches                                                *)

TtlCaches == {"price", "supply"}

\* The entry of `key` was captured less than 5 minutes before `now`.
WithinFiveMinutes(kind, key) ==
    /\ key \in DOMAIN cache[kind]
    /\ now - cache[kind][key][2] < 300

\* C4: in the price and supply caches, a lookup of a key whose entry is less
\* than 5 minutes old returns the cached value without invoking the fetcher;
\* a lookup of an absent or older key goes to the fetcher, every return after
\* a miss follows one fetcher call, and a fetched value is stored with the
\* current time before it is returned.
C4_TtlLookup ==
    [][\A c \in Callers :
          LET old == lookup[c]
              new == lookup'[c]
          IN  (new # old /\ new.kind \in TtlCaches) =>
                  \/ /\ old.pc = "idle"
                     /\ WithinFiveMinutes(new.kind, new.key)
                     /\ new.pc = "done"
                     /\ new.res = Ok(IF new.kind = "price"
                                     THEN FMul(F(3), cache.price[new.key][1])
                                     ELSE cache.supply[new.key][1])
                     /\ fetches'[c] = 0
                     /\ cache' = cache
                  \/ /\ old.pc = "idle"
                     /\ ~WithinFiveMinutes(new.kind, new.key)
                     /\ new.pc = "fetch"
                     /\ fetches'[c] = 0
                     /\ cache' = cache
                  \/ /\ old.pc = "fetch"
                     /\ fetches[c] = 0 /\ fetches'[c] = 1
                     /\ cache' = cache
                     /\ \/ new.pc = "write"
                        \/ new.pc = "done" /\ ~new.res.ok
                  \/ /\ old.pc = "write"
                     /\ fetches'[c] = 1
                     /\ new.pc = "done"
                     /\ new.key \in DOMAIN cache'[new.kind]
                     /\ cache'[new.kind][new.key] = <<old.fetched, now'>>
                     /\ new.res = Ok(IF new.kind = "price"
                                     THEN FMul(F(3), old.fetched)
                                     ELSE old.fetched)
      ]_vars

\* A lookup met an entry exactly 5 minutes old and went to the fetcher, which
\* replaced it.
C4_Witness_Expired ==
    \E c \in Callers :
        /\ lookup[c].pc = "done"
        /\ lookup[c].kind = "supply"
        /\ fetches[c] = 1
        /\ now = 300
        /\ MintX \in DOMAIN cache.supply
        /\ cache.supply[MintX] = <<lookup[c].fetched, 300>>
        /\ \E d \in Callers \ {c} :
              /\ lookup[d].pc = "done"
              /\ lookup[d].kind = "supply"
              /\ fetches[d] = 1
              /\ lookup[d].fetched # lookup[c].fetched

\* A lookup answered from an entry 150 s old without a fetcher call.
C4_Witness_Hit ==
    \E c \in Callers :
        /\ lookup[c].pc = "done"
        /\ lookup[c].kind = "price"
        /\ fetches[c] = 0
        /\ lookup[c].res.ok
        /\ now = 150
        /\ cache.price[lookup[c].key][2] = 0

\* The entry a finished miss of caller c wrote, whatever the time.
WroteValue(c, kind, key) ==
    /\ lookup[c].pc = "done"
    /\ lookup[c].kind = kind
    /\ lookup[c].key = key
    /\ fetches[c] = 1
    /\ lookup[c].res.ok

EntryValue(kind, key) ==
    IF kind = "pool" THEN cache.pool[key] ELSE cache[kind][key][1]

\* C5: whatever the interleaving, a caller that missed returns the value its
\* own fetcher produced; a key has an entry exactly when some caller's write
\* finished, and that entry holds the value of one of those callers; every
\* change of a cache is one caller's insert of its own fetched value under
\* its own key with the current time, all other keys and caches untouched.
C5_ConcurrentMisses ==
    /\ [](\A a \in LookupArgs :
             LET writers == {c \in Callers : WroteValue(c, a[1], a[2])}
             IN  /\ (a[2] \in DOMAIN cache[a[1]]) <=> (writers # {})
                 /\ writers # {} =>
                        \E c \in writers : EntryValue(a[1], a[2]) = lookup[c].fetched)
    /\ [](\A c \in Callers :
             (lookup[c].pc = "done" /\ fetches[c] = 1 /\ lookup[c].res.ok) =>
                 lookup[c].res.v = IF lookup[c].kind = "price"
                                   THEN FMul(F(3), lookup[c].fetched)
                                   ELSE lookup[c].fetched)
    /\ [][cache' # cache =>
             \E c \in Callers :
                 /\ lookup[c].pc = "write" /\ lookup'[c].pc = "done"
                 /\ \A d \in Callers \ {c} : lookup'[d] = lookup[d]
                 /\ \A kind \in DOMAIN cache :
                       /\ kind # lookup[c].kind => cache'[kind] = cache[kind]
                       /\ kind = lookup[c].kind =>
                             /\ DOMAIN cache'[kind] = DOMAIN cache[kind] \cup {lookup[c].key}
                             /\ \A k \in DOMAIN cache[kind] \ {lookup[c].key} :
                                   cache'[kind][k] = cache[kind][k]
                             /\ cache'[kind][lookup[c].key]
                                   = IF kind = "pool" THEN lookup[c].fetched
                                     ELSE <<lookup[c].fetched, now>>
      ]_vars

\* Two callers missed the same pool key, fetched different pools, and both
\* finished: the cache holds the pool of caller 1, who wrote last.
C5_Witness_DuplicateFetch ==
    /\ \A c \in Callers : WroteValue(c, "pool", PoolA)
    /\ lookup[1].fetched # lookup[2].fetched
    /\ cache.pool[PoolA] = lookup[1].fetched
    /\ DOMAIN cache.pool = {PoolA}

----------------------------------------------------------------------------
(* Spec: the ingestion pipeline                                            *)
(* SandwichBot::start, the task running monitor_websocket_transactions,     *)
(* the task running process_websocket_logs, one fetch task per matching     *)
(* notification and one analysis task per queued transaction.               *)

MaxNotifs == 2

\* The DEX_PROGRAMS array of is_dex_transaction.
DEX_PROGRAMS ==
    << "675kPX9MHTjS2zt1qfr1NYHuzeLXfQM9H24wFSUt1Mp8",
       "RVKd61ztZW9GUwhRbbLoYVRE5Xf1B2tVscKqwZqXgEr",
       "whirLbMiicVdio4qvUfM5KAg6Ct8VwpYzGff3uctyCc",
       "9W959DqEETiGZocYWCQPaJ6sBmUzgfxXfqGeTEdp3aQP",
       "LBUZKhRxPF3XUpBCjp4YzTKgLccjZhTSDM9YuVaPwxo",
       "JUP6LkbZbjS1jKKwapdHNy74zcZ3tLUZoi5QNyVTaV4",
       "JUP4Fb2cqiRUcaTHdrPC8h2gNsA2ETXiPDD33WcGuJB",
       "9xQeWvG816bUx9EPjHmaT23yvVM2ZWbrrpZb9PusVFin" >>

\* A log line is the sequence of its words; log.contains(program_id) for an
\* address is that one of the words is the address.
LineContains(log, program_id) == \E w \in 1..Len(log) : log[w] = program_id

\* A filter that accepts every address of the known-program table.
is_known_program_transaction(logs) ==
    \E l \in 1..Len(logs) : \E w \in 1..Len(logs[l]) :
        is_known_dex_program(logs[l][w]) # NoName

is_dex_transaction(logs) ==
    \E l \in 1..Len(logs) : \E q \in 1..Len(DEX_PROGRAMS) :
        LineContains(logs[l], DEX_PROGRAMS[q])

\* A fetch that gives up after the "processed" request.
fetch_processed_only(processed_ok, confirmed_ok) ==
    IF processed_ok THEN Ok("tx")
    ELSE Err("Erreur lors de la recuperation de la transaction")

\* fetch_transaction_details: the "processed" request, then the "confirmed"
\* one when the first fails.
fetch_transaction_details(processed_ok, confirmed_ok) ==
    IF processed_ok THEN Ok("tx")
    ELSE IF confirmed_ok THEN Ok("tx")
    ELSE Err("Erreur lors de la recuperation de la transaction")

\* The requests fetch_transaction_details sends, in order, with their outcome.
RequestsMade(processed_ok, confirmed_ok) ==
    IF processed_ok THEN << [level |-> "processed", ok |-> TRUE] >>
    ELSE << [level |-> "processed", ok |-> FALSE],
            [level |-> "confirmed", ok |-> confirmed_ok] >>

SystemProgram == "11111111111111111111111111111111"

JupiterV6 == "JUP6LkbZbjS1jKKwapdHNy74zcZ3tLUZoi5QNyVTaV4"

\* Listed in KNOWN_DEX_PROGRAMS, absent from DEX_PROGRAMS.
RaydiumV2 == "HWy1jotHpo6UqeQxx49dpYYdQB8wj9Qk9MdxwjLvDHB8"

\* The user receives nothing.
NoReceiptTx ==
    TxOf(Join(Both(MintX, RaydiumAuthority, F(1000), F(500)),
              Both(WSOL_MINT, RaydiumAuthority, F(2), F(3))))

\* The user receives 500 and no owner is a pool authority.
NoPoolTx == TxOf(<< <<>>, <<Row(MintX, UserWallet, F(500))>> >>)

\* The transactions on chain, by index.
PipeTxs == <<PlainSwap, NoReceiptTx, NoPoolTx>>

\* The notifications the subscription can deliver: the log lines and the
\* transaction the signature stands for.
NotifSamples ==
    { [logs |-> << <<"Program", RaydiumProgram, "invoke", "[1]">> >>, tx |-> 1],
      [logs |-> << <<"Program", SystemProgram, "invoke", "[1]">>,
                   <<"Program", JupiterV6, "invoke", "[2]">> >>, tx |-> 2],
      [logs |-> << <<"Program", RaydiumProgram, "success">> >>, tx |-> 3],
      [logs |-> << <<"Program", SystemProgram, "invoke", "[1]">>,
                   <<"Program", SystemProgram, "success">> >>, tx |-> 1],
      [logs |-> << <<"Program", RaydiumV2, "invoke", "[1]">> >>, tx |-> 1],
      [logs |-> <<>>, tx |-> 1] }

NoReceiptMsg == "Aucun token non-systeme recu detecte"

\* The live senders of the transaction channel: tx_sender in the monitor
\* function, sender_clone in process_websocket_logs, one clone per fetch task.
TxSenders ==
    (IF monitorPc = "receiving" THEN 1 ELSE 0)
    + (IF logsPc = "running" THEN 1 ELSE 0)
    + Cardinality({i \in 1..Len(fetchTask) : fetchTask[i] = "fetching"})

\* The first stage of start: initialize_websocket once the price is there;
\* on success the monitor task is spawned and start sleeps, on failure start
\* returns the error.
StartInitialize ==
    /\ startPc = "init"
    /\ is_sol_price_available(sol_price)
    /\ \E subscribed \in BOOLEAN :
          IF subscribed
          THEN /\ logs_receiver' = "Some"
               /\ stream' = "open"
               /\ monitorPc' = "spawned"
               /\ startPc' = "sleeping"
          ELSE /\ startPc' = "returned_err"
               /\ UNCHANGED <<logs_receiver, stream, monitorPc>>
    /\ UNCHANGED <<sol_price, logsPc, notifs, fetchTask, queue, anaTask, logOut,
                   cacheVars, impactVars, proj, ana, dex, extraVars>>

\* loop { sleep(1 s) }
StartSleep ==
    /\ startPc \in {"sleeping", "woken"}
    /\ startPc' = IF startPc = "sleeping" THEN "woken" ELSE "sleeping"
    /\ UNCHANGED <<sol_price, logs_receiver, stream, monitorPc, logsPc, notifs,
                   fetchTask, queue, anaTask, logOut, cacheVars, impactVars, proj, ana, dex, extraVars>>

\* monitor_websocket_transactions up to its loop: the channel, the receiver
\* taken out of the engine, process_websocket_logs spawned.
MonitorTakeReceiver ==
    /\ monitorPc = "spawned"
    /\ IF logs_receiver = "Some"
       THEN /\ logs_receiver' = "None"
            /\ logsPc' = "running"
            /\ monitorPc' = "receiving"
       ELSE /\ monitorPc' = "returned_err"
            /\ UNCHANGED <<logs_receiver, logsPc>>
    /\ UNCHANGED <<startPc, sol_price, stream, notifs, fetchTask, queue, anaTask,
                   logOut, cacheVars, impactVars, proj, ana, dex, extraVars>>

\* The task of a signature: not spawned yet, then its position, its locals
\* and, at the end, what analyze_transaction_for_sandwich returned.
NoTask ==
    [pc |-> "none", token_mint |-> "", tokens_received |-> F(0),
     circulating_supply |-> F(0), impact |-> <<>>, res |-> NoResult]

\* One tx_receiver.recv().await: a queued transaction gets its analysis
\* task; None, when the queue is empty and no sender is left, ends the loop.
MonitorRecv ==
    /\ monitorPc = "receiving"
    /\ queue # <<>> \/ TxSenders = 0
    /\ IF queue # <<>>
       THEN /\ anaTask' = [anaTask EXCEPT ![Head(queue)].pc = "impact_fetch"]
            /\ queue' = Tail(queue)
            /\ UNCHANGED monitorPc
       ELSE /\ monitorPc' = "returned_ok"
            /\ UNCHANGED <<queue, anaTask>>
    /\ UNCHANGED <<startPc, sol_price, logs_receiver, stream, logsPc, notifs,
                   fetchTask, logOut, cacheVars, impactVars, proj, ana, dex, extraVars>>

\* The subscription fails or its stream ends.
StreamEnd ==
    /\ stream = "open"
    /\ stream' = "ended"
    /\ UNCHANGED <<startPc, sol_price, logs_receiver, monitorPc, logsPc, notifs,
                   fetchTask, queue, anaTask, logOut, cacheVars, impactVars, proj, ana, dex, extraVars>>

\* One iteration of process_websocket_logs: a notification is received and,
\* when is_dex_transaction accepts it, its fetch task is spawned.
LogsDeliver ==
    /\ logsPc = "running"
    /\ stream = "open"
    /\ Len(notifs) < MaxNotifs
    /\ \E n \in NotifSamples :
          /\ notifs' = Append(notifs, n)
          /\ anaTask' = Append(anaTask, NoTask)
          /\ requests' = Append(requests, <<>>)
          /\ fetchTask' = Append(fetchTask,
                 IF is_dex_transaction(n.logs) THEN "fetching" ELSE "none")
    /\ UNCHANGED <<startPc, sol_price, logs_receiver, stream, monitorPc, logsPc,
                   queue, logOut, cacheVars, impactVars, proj, ana, dex, upd, bundle, mon>>

\* logs_receiver.recv() returns Err: process_websocket_logs returns.
LogsStop ==
    /\ logsPc = "running"
    /\ stream = "ended"
    /\ logsPc' = "stopped"
    /\ UNCHANGED <<startPc, sol_price, logs_receiver, stream, monitorPc, notifs,
                   fetchTask, queue, anaTask, logOut, cacheVars, impactVars, proj, ana, dex, extraVars>>

\* The fetch task of notification i: the record is fetched and sent, or the
\* task ends without a message.
FetchReply(i) ==
    /\ i \in 1..Len(fetchTask)
    /\ fetchTask[i] = "fetching"
    /\ \E processed_ok \in BOOLEAN, confirmed_ok \in BOOLEAN :
          /\ requests' = [requests EXCEPT ![i] = RequestsMade(processed_ok, confirmed_ok)]
          /\ IF fetch_transaction_details(processed_ok, confirmed_ok).ok
                /\ monitorPc = "receiving"
             THEN /\ queue' = Append(queue, i)
                  /\ fetchTask' = [fetchTask EXCEPT ![i] = "sent"]
             ELSE /\ fetchTask' = [fetchTask EXCEPT ![i] = "failed"]
                  /\ UNCHANGED queue
    /\ UNCHANGED <<startPc, sol_price, logs_receiver, stream, monitorPc, logsPc,
                   notifs, anaTask, logOut, cacheVars, impactVars, proj, ana, dex, upd, bundle, mon>>

\* The record analyze_transaction_for_sandwich builds (lines 1016-1035).
SandwichAnalysisResult(tokens_received, mcap_before, mcap_impact_pct, invested_amount) ==
    LET is_sandwich_opportunity ==
            FGt(mcap_impact_pct, F(2)) /\ FGt(invested_amount, F(100))
    IN  [invested_amount |-> invested_amount,
         tokens_received |-> tokens_received,
         mcap_before |-> mcap_before,
         mcap_after |-> FMul(mcap_before, FAdd(F(1), FDiv(mcap_impact_pct, F(100)))),
         mcap_impact |-> mcap_impact_pct,
         is_sandwich_opportunity |-> is_sandwich_opportunity,
         estimated_profit |-> IF is_sandwich_opportunity
                              THEN FMul(invested_amount, <<1, 20>>)
                              ELSE F(0)]

\* A worker that logs every failure, the no-receipt one included.
LogEveryOutcome(signature, res) ==
    IF res.ok
    THEN {[sig |-> signature,
           kind |-> IF res.v.is_sandwich_opportunity THEN "opportunity" ELSE "result"]}
    ELSE IF res.err = NoPoolDetected THEN {[sig |-> signature, kind |-> "no_pool"]}
    ELSE {[sig |-> signature, kind |-> "error"]}

\* The match of the analysis task (lines 1228-1258): the lines it writes.
LogLines(signature, res) ==
    IF res.ok
    THEN {[sig |-> signature,
           kind |-> IF res.v.is_sandwich_opportunity THEN "opportunity" ELSE "result"]}
    ELSE IF res.err = NoReceiptMsg THEN {}
    ELSE IF res.err = NoPoolDetected THEN {[sig |-> signature, kind |-> "no_pool"]}
    ELSE {[sig |-> signature, kind |-> "error"]}

TaskTx(k) == PipeTxs[notifs[k].tx]

\* Task k ends: analyze_transaction_for_sandwich returned res, the match
\* arm ran.
AnaFinish(k, res) ==
    /\ anaTask' = [anaTask EXCEPT ![k] = [NoTask EXCEPT !.pc = "done", !.res = res]]
    /\ logOut' = logOut \cup LogLines(k, res)

\* The request of line 423 is answered within 5 s.
AnaImpactFetch(k) ==
    /\ k \in 1..Len(anaTask)
    /\ anaTask[k].pc = "impact_fetch"
    /\ \E answered_ok \in BOOLEAN :
          LET user == extract_user_owner_from_transaction(TaskTx(k))
          IN  IF ~answered_ok THEN AnaFinish(k, Err("Erreur RPC"))
              ELSE IF ~TaskTx(k).meta
              THEN AnaFinish(k, Err("Pas de metadonnees dans la transaction"))
              ELSE IF ~user.ok THEN AnaFinish(k, user)
              ELSE /\ anaTask' = [anaTask EXCEPT ![k].pc = "invest1"]
                   /\ UNCHANGED logOut
    /\ UNCHANGED <<startPc, sol_price, logs_receiver, stream, monitorPc, logsPc,
                   notifs, fetchTask, queue, cacheVars, impactVars, proj, ana, dex, extraVars>>

\* The 5 s of line 423 elapse first.
AnaImpactTimeout(k) ==
    /\ k \in 1..Len(anaTask)
    /\ anaTask[k].pc = "impact_fetch"
    /\ AnaFinish(k, Err("Timeout RPC lors de la recuperation de la transaction"))
    /\ UNCHANGED <<startPc, sol_price, logs_receiver, stream, monitorPc, logsPc,
                   notifs, fetchTask, queue, cacheVars, impactVars, proj, ana, dex, extraVars>>

\* The request of get_investment_value_fast (line 443) is answered; then the
\* received token is looked for (lines 446-454).
AnaInvest(k) ==
    /\ k \in 1..Len(anaTask)
    /\ anaTask[k].pc = "invest1"
    /\ \E answered_ok \in BOOLEAN :
          LET t == TaskTx(k)
              r == IF answered_ok
                   THEN get_investment_value_fast(t, sol_price, cache.price, now)
                   ELSE <<Err("RPC"), cache.price>>
              user == extract_user_owner_from_transaction(t)
          IN  /\ cache' = [cache EXCEPT !.price = r[2]]
              /\ IF ~r[1].ok THEN AnaFinish(k, r[1])
                 ELSE IF ~(t.has_pre_tok /\ t.has_post_tok)
                 THEN AnaFinish(k, Err("Aucun token balance fourni"))
                 ELSE \E a \in analyze_tokens_from_pre_post_balances(
                                   t.pre_tok, t.post_tok, user.v) :
                         IF ~a.ok THEN AnaFinish(k, a)
                         ELSE /\ anaTask' = [anaTask EXCEPT
                                     ![k].pc = "supply",
                                     ![k].token_mint = a.v[1],
                                     ![k].tokens_received = a.v[2]]
                              /\ UNCHANGED logOut
    /\ UNCHANGED <<startPc, sol_price, logs_receiver, stream, monitorPc, logsPc,
                   notifs, fetchTask, queue, now, lookup, fetches, impactVars, proj, ana, dex, extraVars>>

\* get_circulating_supply (line 457) returns; then the pools of the
\* transaction and the projection (lines 460-487).
AnaSupply(k) ==
    /\ k \in 1..Len(anaTask)
    /\ anaTask[k].pc = "supply"
    /\ \E reply \in SupplyReplies :
          LET t == TaskTx(k)
              r == get_circulating_supply(cache.supply, anaTask[k].token_mint, reply, now)
          IN  /\ cache' = [cache EXCEPT !.supply = r[2]]
              /\ IF ~r[1].ok THEN AnaFinish(k, r[1])
                 ELSE \E owners \in identify_pool_owners(t.pre_tok, t.post_tok) :
                         LET i == calculate_mcap_impact_from_transaction_pools(
                                      t.pre_tok, t.post_tok, anaTask[k].token_mint,
                                      anaTask[k].tokens_received, r[1].v, sol_price,
                                      owners)
                         IN  IF ~i.ok THEN AnaFinish(k, Err(NoPoolDetected))
                             ELSE /\ anaTask' = [anaTask EXCEPT
                                         ![k].pc = "invest2",
                                         ![k].circulating_supply = r[1].v,
                                         ![k].impact = <<i.v[1], i.v[3]>>]
                                  /\ UNCHANGED logOut
    /\ UNCHANGED <<startPc, sol_price, logs_receiver, stream, monitorPc, logsPc,
                   notifs, fetchTask, queue, now, lookup, fetches, impactVars, proj, ana, dex, extraVars>>

\* The second get_investment_value_fast (line 1014) returns and the result
\* is built.
AnaInvestAgain(k) ==
    /\ k \in 1..Len(anaTask)
    /\ anaTask[k].pc = "invest2"
    /\ \E answered_ok \in BOOLEAN :
          LET r == IF answered_ok
                   THEN get_investment_value_fast(TaskTx(k), sol_price, cache.price, now)
                   ELSE <<Err("RPC"), cache.price>>
          IN  /\ cache' = [cache EXCEPT !.price = r[2]]
              /\ AnaFinish(k, IF r[1].ok
                              THEN Ok(SandwichAnalysisResult(
                                          anaTask[k].tokens_received,
                                          anaTask[k].impact[1], anaTask[k].impact[2],
                                          r[1].v))
                              ELSE r[1])
    /\ UNCHANGED <<startPc, sol_price, logs_receiver, stream, monitorPc, logsPc,
                   notifs, fetchTask, queue, now, lookup, fetches, impactVars, proj, ana, dex, extraVars>>

Init ==
    /\ PipeQuiet
    /\ sol_price = NoPrice
    /\ now = 0
    /\ cache = EmptyCaches
    /\ lookup = <<>>
    /\ fetches = <<>>
    /\ tx = PlainSwap
    /\ impactPc = "idle"
    /\ calc = CalcInit
    /\ proj = NoProjection
    /\ ana = NoAnalysis
    /\ dex = NoDex
    /\ OthersQuiet

Next ==
    \/ SolPriceUpdate
    \/ StartInitialize
    \/ StartSleep
    \/ MonitorTakeReceiver
    \/ MonitorRecv
    \/ StreamEnd
    \/ LogsDeliver
    \/ LogsStop
    \/ \E i \in 1..MaxNotifs : FetchReply(i)
    \/ \E k \in 1..MaxNotifs : AnaImpactFetch(k)
    \/ \E k \in 1..MaxNotifs : AnaImpactTimeout(k)
    \/ \E k \in 1..MaxNotifs : AnaInvest(k)
    \/ \E k \in 1..MaxNotifs : AnaSupply(k)
    \/ \E k \in 1..MaxNotifs : AnaInvestAgain(k)

\* What the scheduler and the timers guarantee: every task that can run does,
\* and a started timer fires.  Nothing is assumed of the network: a request
\* need not be answered, a notification need not arrive.
Fairness ==
    /\ WF_vars(StartInitialize)
    /\ WF_vars(StartSleep)
    /\ WF_vars(MonitorTakeReceiver)
    /\ WF_vars(MonitorRecv)
    /\ WF_vars(LogsStop)
    /\ \A k \in 1..MaxNotifs : WF_vars(AnaImpactTimeout(k))

Spec == Init /\ [][Next]_vars /\ Fairness

----------------------------------------------------------------------------
(* Properties of the ingestion pipeline                                    *)

TaskPc(k) == IF k \in 1..Len(anaTask) THEN anaTask[k].pc ELSE "none"

Dispatched(k) == TaskPc(k) # "none"

Finished(k) == TaskPc(k) = "done"

Failed(k) == Finished(k) /\ ~anaTask[k].res.ok

\* C1: once the subscription has failed or its stream has ended, the monitor
\* function eventually returns and start eventually returns an error; the
\* process does not keep running on a dead subscription.
C1_DeadSubscriptionSurfaced ==
    (stream = "ended") ~>
        (/\ monitorPc \in {"returned_ok", "returned_err"}
         /\ startPc = "returned_err")

\* The words of the log lines of a notification.
NotifWords(n) ==
    UNION { {n.logs[l][w] : w \in 1..Len(n.logs[l])} : l \in 1..Len(n.logs) }

ExchangeAddresses == {DEX_PROGRAMS[q] : q \in 1..Len(DEX_PROGRAMS)}

NamesExchange(n) == NotifWords(n) \cap ExchangeAddresses # {}

InQueue(i) == \E q \in 1..Len(queue) : queue[q] = i

\* C3: a notification has a fetch task, a queue message or an analysis task
\* only if one of its log lines contains one of the eight exchange program
\* addresses; a notification without such a line has none of the three.
C3_OnlyExchangeLogsDispatched ==
    \A i \in 1..Len(notifs) :
        /\ (fetchTask[i] # "none" \/ InQueue(i) \/ Dispatched(i))
              => NamesExchange(notifs[i])
        /\ ~NamesExchange(notifs[i])
              => (fetchTask[i] = "none" /\ ~InQueue(i) /\ ~Dispatched(i))

\* A notification naming only a program outside the list was discarded and
\* one naming a listed program had its transaction fetched and queued.
C3_Witness_Discarded ==
    \E i \in 1..Len(notifs), j \in 1..Len(notifs) :
        /\ RaydiumV2 \in NotifWords(notifs[i])
        /\ fetchTask[i] = "none"
        /\ NamesExchange(notifs[j])
        /\ fetchTask[j] = "sent"
        /\ InQueue(j)

\* The line a failure is expected to leave, by its class.
FailureLine(k, err) ==
    [sig |-> k, kind |-> IF err = NoPoolDetected THEN "no_pool" ELSE "error"]

C6_EveryTaskFinishes ==
    \A k \in 1..MaxNotifs :
        /\ Dispatched(k) ~> Finished(k)
        /\ (TaskPc(k) \in {"impact_fetch", "invest1"})
              ~> (TaskPc(k) \notin {"impact_fetch", "invest1"})

----------------------------------------------------------------------------
(* AnalyzerSpec: get_investment_value_fast and                              *)
(* analyze_tokens_from_pre_post_balances run on one transaction record,     *)
(* each up to MaxRuns times.                                                *)

MaxRuns == 2

MintY == "MintYMintYMintYMintYMintYMintYMintYMintY1111"

PostOnly(mint, owner, post_amt) == << <<>>, <<Row(mint, owner, post_amt)>> >>

PreOnly(mint, owner, pre_amt) == << <<Row(mint, owner, pre_amt)>>, <<>> >>

\* The user's token balance records: reference assets going down or up, an
\* account closed by the transaction, new positions, increases around the
\* two thresholds, two mints received at once, a token sold.
AnalyzerUserRows ==
    { NoRows,
      Both(WSOL_MINT, UserWallet, F(3), F(1)),
      Both(USDC_MINT, UserWallet, F(50), F(20)),
      Both(USDT_MINT, UserWallet, F(50), F(20)),
      Both(USDC_MINT, UserWallet, F(20), F(50)),
      PreOnly(WSOL_MINT, UserWallet, F(3)),
      PostOnly(WSOL_MINT, UserWallet, F(5)),
      PostOnly(MintX, UserWallet, F(500)),
      PostOnly(MintX, UserWallet, NoAmt),
      Both(MintX, UserWallet, F(10), F(210)),
      Both(MintX, UserWallet, F(10), <<21, 2>>),
      Both(MintX, UserWallet, F(10), F(11)),
      PostOnly(MintX, UserWallet, F(1000000000)),
      PostOnly(MintX, UserWallet, F(999999999)),
      Join(PostOnly(MintX, UserWallet, F(500)), Both(MintY, UserWallet, F(10), F(210))),
      Both(MintX, UserWallet, F(210), F(10)) }

\* The records of the pool authority, the other owner of every record.
AnalyzerOtherRows ==
    Join(Both(MintX, RaydiumAuthority, F(1000), F(500)),
         Join(Both(MintY, RaydiumAuthority, F(10), F(300)),
              Both(WSOL_MINT, RaydiumAuthority, F(2), F(3))))

\* <<pre_balances, post_balances>> in SOL, the user's account first.
NativeSamples ==
    { << <<F(10), F(5)>>, <<<<19, 2>>, F(5)>> >>,
      << <<F(10), F(5)>>, <<<<19, 2>>, F(1)>> >>,
      << <<F(10), F(5)>>, <<F(11), F(1)>> >>,
      << <<F(10), F(5)>>, <<F(10), F(5)>> >> }

AnalyzerTx(native, rows, msg) ==
    [meta |-> TRUE, enc |-> "json", msg |-> msg,
     keys |-> <<UserWallet, RaydiumAuthority>>,
     pre_balances |-> native[1], post_balances |-> native[2],
     has_pre_tok |-> TRUE,  pre_tok  |-> rows[1],
     has_post_tok |-> TRUE, post_tok |-> rows[2]]

AnalyzerTxs ==
    { AnalyzerTx(native, Join(u, AnalyzerOtherRows), msg) :
         native \in NativeSamples, u \in AnalyzerUserRows, msg \in {"parsed", "raw"} }

\* The native-asset price cell: empty, or 200 USD.
AnalyzerSolPrices == {NoPrice, F(200)}

AnalyzerInit ==
    /\ PipeQuiet
    /\ sol_price \in AnalyzerSolPrices
    /\ now = 0
    /\ cache = EmptyCaches
    /\ lookup = <<>>
    /\ fetches = <<>>
    /\ tx \in AnalyzerTxs
    /\ impactPc = "analyze"
    /\ calc = CalcInit
    /\ proj = NoProjection
    /\ ana = NoAnalysis
    /\ dex = NoDex
    /\ OthersQuiet

\* One call of get_investment_value_fast whose request returned tx.
AnalyzeInvested ==
    /\ impactPc = "analyze"
    /\ Len(ana.invested) < MaxRuns
    /\ LET r == get_investment_value_fast(tx, sol_price, cache.price, now)
       IN  /\ ana' = [ana EXCEPT !.invested = Append(@, r[1])]
           /\ cache' = [cache EXCEPT !.price = r[2]]
    /\ UNCHANGED <<tx, impactPc, calc, proj, dex, pipeVars, now, lookup, fetches, extraVars>>

\* One call of analyze_tokens_from_pre_post_balances as
\* calculate_tokens_received_and_mcap_impact makes it (lines 436-454).
AnalyzeReceived ==
    /\ impactPc = "analyze"
    /\ Len(ana.received) < MaxRuns
    /\ LET user == extract_user_owner_from_transaction(tx)
       IN  /\ user.ok
           /\ tx.has_pre_tok /\ tx.has_post_tok
           /\ \E a \in analyze_tokens_from_pre_post_balances(
                           tx.pre_tok, tx.post_tok, user.v) :
                 ana' = [ana EXCEPT !.received = Append(@, a)]
    /\ UNCHANGED <<tx, impactPc, calc, proj, dex, pipeVars, cacheVars, extraVars>>

AnalyzerNext == AnalyzeInvested \/ AnalyzeReceived

AnalyzerSpec == AnalyzerInit /\ [][AnalyzerNext]_vars

----------------------------------------------------------------------------
(* Properties of the analyzer                                              *)

\* The USD value of the native decrease of account i, 0 when it did not
\* decrease.
AccountDecreaseUsd(i) ==
    LET d == FSub(tx.pre_balances[i], tx.post_balances[i])
    IN  IF FGt(d, F(0)) THEN FMul(d, sol_price) ELSE F(0)

\* The user has no token balance record before the transaction, so no token
\* adds to the invested value.
NoUserTokenBefore ==
    \A i \in 1..Len(tx.pre_tok) : tx.pre_tok[i].owner # UserWallet

InvestedRuns == {i \in 1..Len(ana.invested) : ana.invested[i].ok}

UserTokenDecreases ==
    { <<tx.pre_tok[i].mint, FSub(ui_amount(tx.pre_tok[i]), ui_amount(tx.post_tok[j]))>> :
        <<i, j>> \in { p \in (1..Len(tx.pre_tok)) \X (1..Len(tx.post_tok)) :
                         /\ tx.pre_tok[p[1]].owner = UserWallet
                         /\ tx.post_tok[p[2]].owner = UserWallet
                         /\ tx.post_tok[p[2]].mint = tx.pre_tok[p[1]].mint
                         /\ FGt(ui_amount(tx.pre_tok[p[1]]),
                                ui_amount(tx.post_tok[p[2]])) } }

\* C13: a decrease of the user's balance of a reference asset adds its USD
\* value to the invested value, the wrapped native coin at the native-asset
\* price and either stablecoin at 1 USD per unit: for a parsed record whose
\* user holds one such decreasing balance the invested value is the native
\* part plus that value.
C13_ReferenceDecreaseInvested ==
    \A i \in InvestedRuns :
        \A d \in UserTokenDecreases :
            (tx.msg = "parsed" /\ d[1] \in SYSTEM_TOKENS /\ UserTokenDecreases = {d})
                => ana.invested[i].v
                     = FAdd(AccountDecreaseUsd(1),
                            IF d[1] = WSOL_MINT THEN FMul(d[2], sol_price) ELSE d[2])

\* The user's records after the transaction whose mint the user holds no
\* record of before it (positions in post_tok).
NewPositions ==
    { j \in 1..Len(tx.post_tok) :
        /\ tx.post_tok[j].owner = UserWallet
        /\ \A i \in 1..Len(tx.pre_tok) :
              ~(tx.pre_tok[i].owner = UserWallet /\ tx.pre_tok[i].mint = tx.post_tok[j].mint) }

\* C14: a record of the user present only after the transaction counts with
\* pre-balance 0: when the analyzer returns its mint, the amount received is
\* the post amount; post amount 500 of mint X with no pre record, the user
\* holding nothing else, is reported as 500 tokens received of mint X.
C14_NewPositionCountsInFull ==
    \A r \in 1..Len(ana.received) :
        \A j \in NewPositions :
            /\ (ana.received[r].ok /\ ana.received[r].v[1] = tx.post_tok[j].mint)
                  => ana.received[r].v[2] = ui_amount(tx.post_tok[j])
            /\ (/\ tx.post_tok[j].mint = MintX
                /\ tx.post_tok[j].amt = F(500)
                /\ \A i \in 1..Len(tx.post_tok) :
                      tx.post_tok[i].owner = UserWallet => i = j)
                  => ana.received[r] = Ok(<<MintX, F(500)>>)

\* Mint X appears for the user only after the transaction, with 500: the
\* analyzer returned (X, 500).
C14_Witness_NewPosition ==
    /\ Len(ana.received) >= 1
    /\ ana.received[1] = Ok(<<MintX, F(500)>>)
    /\ \E j \in NewPositions :
          /\ tx.post_tok[j].mint = MintX
          /\ tx.post_tok[j].amt = F(500)
    /\ \A i \in 1..Len(tx.post_tok) :
          tx.post_tok[i].owner = UserWallet => tx.post_tok[i].mint = MintX

\* The balance increases of the user, <<mint, amount>>: post minus pre for a
\* record with both, the post amount for a new position.
UserIncreases ==
    { <<tx.pre_tok[p[1]].mint,
        FSub(ui_amount(tx.post_tok[p[2]]), ui_amount(tx.pre_tok[p[1]]))>> :
        p \in { q \in (1..Len(tx.pre_tok)) \X (1..Len(tx.post_tok)) :
                  /\ tx.pre_tok[q[1]].owner = UserWallet
                  /\ tx.post_tok[q[2]].owner = UserWallet
                  /\ tx.post_tok[q[2]].mint = tx.pre_tok[q[1]].mint } }
    \cup { <<tx.post_tok[j].mint, ui_amount(tx.post_tok[j])>> : j \in NewPositions }

\* The increases that qualify as a receipt: not a reference asset, above the
\* noise floor of 1 and below the bound of 10^9.
QualifyingIncreases ==
    { c \in UserIncreases :
        /\ c[1] \notin {WSOL_MINT, USDC_MINT, USDT_MINT}
        /\ FLt(F(1), c[2])
        /\ FLt(c[2], F(1000000000)) }

\* C15: the analyzer returns (mint, amount) only for a balance of the user in
\* a mint that is no reference asset and whose increase is amount, with
\* 1 < amount < 10^9; it returns the no-receipt error exactly when no balance
\* of the user qualifies.
C15_ReceiptThresholds ==
    \A r \in 1..Len(ana.received) :
        /\ ana.received[r].ok => ana.received[r].v \in QualifyingIncreases
        /\ (ana.received[r] = Err(NoReceiptMsg)) <=> (QualifyingIncreases = {})

\* 999,999,999 units of mint X received, just under the bound: returned.
C15_Witness_UnderBound ==
    /\ Len(ana.received) >= 1
    /\ ana.received[1] = Ok(<<MintX, F(999999999)>>)
    /\ QualifyingIncreases = {<<MintX, F(999999999)>>}

\* C16: analysing the same record twice yields the same received mint and
\* the same received amount, also when several mints of the user qualify.
C16_SameRecordSameReceipt ==
    \A r \in 1..Len(ana.received) : ana.received[r] = ana.received[1]

----------------------------------------------------------------------------
(* Properties of the price resolver                                        *)

\* Amounts the resolver is asked to value, zero, negative and non-finite
\* ones included.
ResolverAmounts == {F(0), F(3), <<1, 2>>, F(-3), F(1000), <<1, 0>>, <<0, 0>>}

\* C17: whenever the native-asset price is available, resolving the USD value
\* of any amount of any token returns a value and never an error: in every
\* state of the caches the resolver called now returns Ok, a price lookup in
\* progress never ends with an error, and a fetch always goes on to the write.
C17_ResolverNeverFails ==
    /\ [](sol_price # NoPrice =>
            \A mint \in {MintX, ShortMint}, amount \in ResolverAmounts :
                calculate_token_value_via_routes(cache.price, mint, amount,
                                                 sol_price, now)[1].ok)
    /\ [][\A c \in Callers :
            (sol_price # NoPrice /\ lookup'[c] # lookup[c] /\ lookup'[c].kind = "price") =>
                /\ lookup'[c].pc = "done" => lookup'[c].res.ok
                /\ lookup[c].pc = "fetch" => lookup'[c].pc = "write"]_vars

\* A token with no special route was priced after a fetch: 3 units at the
\* unit price 0.1 are worth 0.3 USD.
C17_Witness_Priced ==
    /\ sol_price # NoPrice
    /\ \E c \in Callers :
          /\ lookup[c].pc = "done"
          /\ lookup[c].kind = "price"
          /\ lookup[c].key = ShortMint
          /\ fetches[c] = 1
          /\ lookup[c].res = Ok(<<3, 10>>)

\* What the claim lets the fetch yield for a reply.
YieldedFor(quote) ==
    IF quote.kind \in SolFailures THEN F(221)
    ELSE IF FLt(quote.v, F(50)) \/ FGt(quote.v, F(500)) THEN F(221)
    ELSE quote.v

\* C18: the native-asset price fetch never fails its caller: on a request
\* error, an unparsable response, a missing price field or a reported price
\* below 50 or above 500 it yields 221, otherwise the reported price; every
\* price the updater stores is such a value and lies in [50, 500].
C18_FetchNeverFails ==
    /\ [](/\ \A quote \in SolQuotes :
                fetch_sol_price_from_pool(quote) = Ok(YieldedFor(quote))
          /\ sol_price # NoPrice => FLe(F(50), sol_price) /\ FLe(sol_price, F(500)))
    /\ [][sol_price' # sol_price =>
            \E quote \in SolQuotes : sol_price' = YieldedFor(quote)]_vars

\* The fallback 221 was stored and a token was then priced with it.
C18_Witness_Fallback ==
    /\ sol_price = F(221)
    /\ \E c \in Callers :
          /\ lookup[c].pc = "done"
          /\ lookup[c].kind = "price"
          /\ lookup[c].key = MintX
          /\ fetches[c] = 1
          /\ lookup[c].res = Ok(FMul(LookupAmount, FMul(IMAGINE_PER_WSOL, F(221))))

----------------------------------------------------------------------------
(* The pool parser and the DexManager                                      *)
(* The data of an account is [size, fee, amounts]: its length in bytes,     *)
(* the little-endian bytes of the two fields the fee is derived from, and   *)
(* the two vault amounts an Orca account carries.                           *)

DexTypes ==
    {"RaydiumV4", "OrcaWhirlpool", "MeteoraDLMM", "Lifinity", "Phoenix", "Serum",
     "Jupiter", "Unsupported", "Unknown"}

\* name.contains(word), for the names of KNOWN_DEX_PROGRAMS.
DexNameContains(name, word) ==
    CASE word = "Raydium" -> name \in {"Raydium V4", "Raydium V3", "Raydium V2"}
      [] word = "Orca" -> name \in {"Orca Whirlpool", "Orca V1", "Orca V2"}
      [] word = "Meteora DLMM" -> name = "Meteora DLMM"
      [] word = "Lifinity" -> name \in {"Lifinity", "Lifinity V2"}
      [] word = "Phoenix" -> name \in {"Phoenix", "Phoenix V2"}
      [] word = "Serum" -> name \in {"Serum DEX V3", "Serum DEX V2"}
      [] word = "Jupiter" -> name \in {"Jupiter V6", "Jupiter V4", "Jupiter V3"}

detect_dex_type(program_id) ==
    LET name == is_known_dex_program(program_id)
    IN  IF name = NoName THEN "Unknown"
        ELSE IF DexNameContains(name, "Raydium") THEN "RaydiumV4"
        ELSE IF DexNameContains(name, "Orca") THEN "OrcaWhirlpool"
        ELSE IF DexNameContains(name, "Meteora DLMM") THEN "MeteoraDLMM"
        ELSE IF DexNameContains(name, "Lifinity") THEN "Lifinity"
        ELSE IF DexNameContains(name, "Phoenix") THEN "Phoenix"
        ELSE IF DexNameContains(name, "Serum") THEN "Serum"
        ELSE IF DexNameContains(name, "Jupiter") THEN "Jupiter"
        ELSE "Unsupported"

\* The number of bytes the borsh layout of each account structure takes.
LayoutSize(dex_type) ==
    CASE dex_type = "RaydiumV4" -> 728
      [] dex_type = "OrcaWhirlpool" -> 630
      [] dex_type = "MeteoraDLMM" -> 174
      [] dex_type = "Lifinity" -> 162
      [] dex_type = "Phoenix" -> 154
      [] dex_type = "Serum" -> 152

\* T::try_from_slice(data): every field is of fixed size and accepts every
\* bit pattern, so decoding fails exactly when bytes are missing or left over.
try_from_slice(data, dex_type) ==
    IF data.size < LayoutSize(dex_type) THEN Err("Unexpected length of input")
    ELSE IF data.size > LayoutSize(dex_type) THEN Err("Not all bytes read")
    ELSE Ok(data)

\* The unsigned integer a little-endian byte string holds.
RECURSIVE LittleEndian(_)
LittleEndian(bytes) ==
    IF bytes = <<>> THEN 0 ELSE bytes[1] + 256 * LittleEndian(Tail(bytes))

U16_MAX == 65535

\* (numerator as f64 / denominator as f64 * 10000.0) as u16, denominator > 0:
\* the cast truncates and saturates.
RatioAsBps(numerator, denominator) ==
    LET q == numerator \div denominator
        r == numerator % denominator
    IN  IF q >= 7 THEN U16_MAX
        ELSE LET bps == q * 10000 + (r * 10000) \div denominator
             IN  IF bps > U16_MAX THEN U16_MAX ELSE bps

\* What a task is left with when the arithmetic of a build with overflow
\* checks panics.
Fault == [ok |-> FALSE, v |-> <<>>, err |-> "panicked: attempt to add with overflow"]

\* a + b on u16: a build with overflow checks panics when the sum does not
\* fit, a build without them wraps.
AddU16(a, b, overflow_checks) ==
    IF a + b <= U16_MAX THEN Ok(a + b)
    ELSE IF overflow_checks THEN Fault
    ELSE Ok((a + b) % (U16_MAX + 1))

\* The PoolInfo a parser returns; calculate_pool_metrics is float arithmetic
\* on the reserves that always returns Ok, its results are not carried here.
PoolInfoOf(dex_type, reserve_a, reserve_b, fee_bps) ==
    [dex_type |-> dex_type, token_a_mint |-> MintX, token_b_mint |-> WSOL_MINT,
     reserve_a |-> reserve_a, reserve_b |-> reserve_b, fee_bps |-> fee_bps]

\* A parser that reads both vaults: decode, then get_token_balance twice,
\* then the fee.
WithVaults(dex_type, data, vault_a, vault_b, fee) ==
    LET decoded == try_from_slice(data, dex_type)
    IN  IF ~decoded.ok THEN decoded
        ELSE IF ~vault_a.ok THEN Err(vault_a.err)
        ELSE IF ~vault_b.ok THEN Err(vault_b.err)
        ELSE IF ~fee.ok THEN fee
        ELSE Ok(PoolInfoOf(dex_type, vault_a.v, vault_b.v, fee.v))

parse_raydium_v4(data, vault_a, vault_b) ==
    LET swap_fee_numerator == LittleEndian(data.fee[1])
        swap_fee_denominator == LittleEndian(data.fee[2])
    IN  WithVaults("RaydiumV4", data, vault_a, vault_b,
                   Ok(IF swap_fee_denominator > 0
                      THEN RatioAsBps(swap_fee_numerator, swap_fee_denominator)
                      ELSE 25))

parse_orca_whirlpool(data) ==
    LET decoded == try_from_slice(data, "OrcaWhirlpool")
    IN  IF ~decoded.ok THEN decoded
        ELSE Ok(PoolInfoOf("OrcaWhirlpool", data.amounts[1], data.amounts[2],
                           LittleEndian(data.fee[1])))

\* The sum of the two fee fields, on u16, with no check.
parse_meteora_dlmm(data, vault_a, vault_b, overflow_checks) ==
    WithVaults("MeteoraDLMM", data, vault_a, vault_b,
               AddU16(LittleEndian(data.fee[1]), LittleEndian(data.fee[2]),
                      overflow_checks))

parse_lifinity(data, vault_a, vault_b) ==
    WithVaults("Lifinity", data, vault_a, vault_b, Ok(LittleEndian(data.fee[1])))

parse_phoenix(data, vault_a, vault_b) ==
    WithVaults("Phoenix", data, vault_a, vault_b, Ok(LittleEndian(data.fee[1])))

parse_serum(data, vault_a, vault_b) ==
    WithVaults("Serum", data, vault_a, vault_b, Ok(22))

\* env is what the RPC node answers: [account, vault_a, vault_b].
parse_pool(env, dex_type, overflow_checks) ==
    IF ~env.account.ok THEN env.account
    ELSE LET data == env.account.v
         IN  CASE dex_type = "RaydiumV4" -> parse_raydium_v4(data, env.vault_a, env.vault_b)
               [] dex_type = "OrcaWhirlpool" -> parse_orca_whirlpool(data)
               [] dex_type = "MeteoraDLMM" ->
                      parse_meteora_dlmm(data, env.vault_a, env.vault_b, overflow_checks)
               [] dex_type = "Lifinity" -> parse_lifinity(data, env.vault_a, env.vault_b)
               [] dex_type = "Phoenix" -> parse_phoenix(data, env.vault_a, env.vault_b)
               [] dex_type = "Serum" -> parse_serum(data, env.vault_a, env.vault_b)
               [] dex_type = "Jupiter" ->
                      Err("Jupiter est un agregateur, pas un pool direct")
               [] dex_type = "Unsupported" -> Err("Type de DEX non supporte")
               [] dex_type = "Unknown" -> Err("Type de DEX inconnu")

\* <<result, the pool cache afterwards>>
get_pool_info_cached(pools, pool_id, dex_type, env, overflow_checks) ==
    IF pool_id \in DOMAIN pools THEN <<Ok(pools[pool_id]), pools>>
    ELSE LET pool_info == parse_pool(env, dex_type, overflow_checks)
         IN  IF ~pool_info.ok THEN <<pool_info, pools>>
             ELSE <<pool_info, Put(pools, pool_id, pool_info.v)>>

analyze_pool_from_transaction(pools, pool_id, program_id, env, overflow_checks) ==
    LET dex_type == detect_dex_type(program_id)
    IN  IF dex_type = "Unsupported" THEN <<Err("Type de DEX non supporte"), pools>>
        ELSE IF dex_type = "Unknown" THEN <<Err("Programme DEX inconnu"), pools>>
        ELSE get_pool_info_cached(pools, pool_id, dex_type, env, overflow_checks)

\* Account data: truncated, exact and over-long buffers of each layout, with
\* fee fields at the ends of their ranges.
Sized(sizes, fees) ==
    {[size |-> s, fee |-> f, amounts |-> <<1000, 2>>] : s \in sizes, f \in fees}

DexBuffers ==
    {[size |-> 0, fee |-> << <<>>, <<>> >>, amounts |-> <<0, 0>>]}
        \cup Sized({10, 173, 175}, {<< <<5, 0>>, <<25, 0>> >>})
        \cup Sized({174},
                   {<< <<5, 0>>, <<25, 0>> >>, << <<255, 255>>, <<1, 0>> >>,
                    << <<255, 255>>, <<255, 255>> >>, << <<0, 0>>, <<0, 0>> >>})
        \cup Sized({727, 729},
                   {<< <<25, 0, 0, 0, 0, 0, 0, 0>>, <<16, 39, 0, 0, 0, 0, 0, 0>> >>})
        \cup Sized({728},
                   {<< <<25, 0, 0, 0, 0, 0, 0, 0>>, <<16, 39, 0, 0, 0, 0, 0, 0>> >>,
                    << <<25, 0, 0, 0, 0, 0, 0, 0>>, <<0, 0, 0, 0, 0, 0, 0, 0>> >>,
                    << <<64, 13, 3, 0, 0, 0, 0, 0>>, <<1, 0, 0, 0, 0, 0, 0, 0>> >>,
                    << <<7, 0, 0, 0, 0, 0, 0, 0>>, <<3, 0, 0, 0, 0, 0, 0, 0>> >>})
        \cup Sized({630, 162, 154, 152},
                   {<< <<30, 0>>, <<0, 0>> >>, << <<255, 255>>, <<255, 255>> >>})

\* What get_token_balance returns for a vault: an error or its amount.
VaultReplies ==
    {[ok |-> FALSE, v |-> 0, err |-> "AccountNotFound"],
     [ok |-> TRUE, v |-> 1000, err |-> ""]}

DexEnvs ==
    {[account |-> a, vault_a |-> va, vault_b |-> vb] :
        a \in {Err("AccountNotFound")} \cup {Ok(b) : b \in DexBuffers},
        va \in VaultReplies, vb \in VaultReplies}

\* One program of each detected type, and a program that is in no table.
DexPrograms ==
    {"675kPX9MHTjS2zt1qfr1NYHuzeLXfQM9H24wFSUt1Mp8",
     "whirLbMiicVdio4qvUfM5KAg6Ct8VwpYzGff3uctyCc",
     "LBUZKhRxPF3XUpBCjp4YzTKgLccjZhTSDM9YuVaPwxo",
     "CAMMCzo5YL8w4VFF8KVHrK22GGUQpFuLUUamH4uV8K9",
     "JUP6LkbZbjS1jKKwapdHNy74zcZ3tLUZoi5QNyVTaV4",
     "9xQeWvG816bUx9EPjHmaT23yvVM2ZWbrrpZb9PusVFin",
     "EewxydAPCCVuNEyrVN68PuSYdQ7wKn27V9Gjeoi8dy3S",
     "PhoeNiLZ3D1nw8vKqJm8vKqJm8vKqJm8vKqJm8vKqJm",
     "6EF8rrecthR5Dkzon8Nwu78hRvfCKubJ14M5uBEwF6P",
     "11111111111111111111111111111111"}

DexInit ==
    /\ PipeQuiet
    /\ sol_price = NoPrice
    /\ now = 0
    /\ cache = EmptyCaches
    /\ lookup = <<>>
    /\ fetches = <<>>
    /\ tx = PlainSwap
    /\ impactPc = "idle"
    /\ calc = CalcInit
    /\ proj = NoProjection
    /\ ana = NoAnalysis
    /\ \E checks \in BOOLEAN : dex = [NoDex EXCEPT !.overflow_checks = checks]
    /\ OthersQuiet

\* DexManager::fetch_pool_info: the parser called with a tag, no cache.
FetchPoolInfo ==
    /\ \E dex_type \in DexTypes, env \in DexEnvs :
          dex' = [dex EXCEPT !.call =
                     [op |-> "fetch_pool_info", pool_id |-> PoolA,
                      dex_type |-> dex_type,
                      res |-> parse_pool(env, dex_type, dex.overflow_checks)]]
    /\ UNCHANGED <<tx, impactPc, calc, proj, ana, pipeVars, cacheVars, extraVars>>

\* DexManager::analyze_pool_from_transaction for a pool and a program.
AnalyzePool ==
    /\ \E program_id \in DexPrograms, env \in DexEnvs :
          LET r == analyze_pool_from_transaction(cache.pool, PoolA, program_id, env,
                                                 dex.overflow_checks)
          IN  /\ dex' = [dex EXCEPT !.call =
                            [op |-> "analyze_pool_from_transaction", pool_id |-> PoolA,
                             dex_type |-> detect_dex_type(program_id), res |-> r[1]]]
              /\ cache' = [cache EXCEPT !.pool = r[2]]
    /\ UNCHANGED <<tx, impactPc, calc, proj, ana, pipeVars, now, lookup, fetches, extraVars>>

DexNext == FetchPoolInfo \/ AnalyzePool

DexSpec == DexInit /\ [][DexNext]_vars

----------------------------------------------------------------------------
(* Properties of the pool parser and the DexManager                        *)

Called == dex.call # <<>>

\* C19: no pool is returned for a protocol tag of Jupiter, Unsupported or
\* Unknown, neither by parse_pool nor by analyze_pool_from_transaction,
\* whatever the pool cache contains.
C19_NoPoolForRejectedTags ==
    (Called /\ dex.call.dex_type \in {"Jupiter", "Unsupported", "Unknown"})
        => ~dex.call.res.ok

\* C20: for every supported protocol and every byte buffer, decoding ends
\* with a pool or with an error value and never faults.
C20_DecodingNeverFaults ==
    (Called /\ dex.call.dex_type \notin {"Jupiter", "Unsupported", "Unknown"})
        => dex.call.res # Fault

----------------------------------------------------------------------------
(* Properties of the quote side of an extracted pool                       *)

\* The reference mints whose balances were taken as the quote reserves of the
\* pools extracted for the owners from position n on, in the order of the pools.
RECURSIVE QuoteMintsTaken(_)
QuoteMintsTaken(n) ==
    IF n > Len(calc.owners.v) THEN <<>>
    ELSE LET bal == OwnerPoolBalances(tx.pre_tok, tx.post_tok, calc.owners.v[n],
                                      calc.token_mint, 1, <<NoBal, NoBal>>)
         IN  IF bal[1] # NoBal /\ bal[2] # NoBal
             THEN <<bal[2][4]>> \o QuoteMintsTaken(n + 1)
             ELSE QuoteMintsTaken(n + 1)

PoolsExtracted == ImpactFinished /\ calc.owners # NoResult /\ calc.owners.ok

\* C21: in the projection and in the dominant-pool liquidity, the quote side
\* of an extracted pool is multiplied by the native-asset price if and only
\* if the mint whose balance was taken as its quote reserve is the wrapped
\* native coin.
C21_NativePriceIffNativeQuote ==
    PoolsExtracted =>
        \A i \in 1..Len(calc.pools) :
            PoolSides(calc.pools[i], calc.token_mint)[3]
                <=> (QuoteMintsTaken(1)[i] = WSOL_MINT)

----------------------------------------------------------------------------
(* Properties of the pool-authority classification                         *)

\* The mints in which `owner` has a balance both before and after.
MintsHeld(owner) ==
    {tx.pre_tok[i].mint : i \in {k \in 1..Len(tx.pre_tok) :
        /\ tx.pre_tok[k].owner = owner
        /\ FindPost(tx.post_tok, tx.pre_tok[k].mint, owner, 1) # 0}}

\* The owners the finished classification returned.
OwnersReturned ==
    IF calc.owners.ok THEN {calc.owners.v[i] : i \in 1..Len(calc.owners.v)} ELSE {}

\* C22: an owner is classified as a pool authority if and only if it is a
\* known exchange program, or a known pool account, or it holds balances in
\* at least 2 distinct mints whose absolute changes sum to more than 10,000
\* with at least one change above 1,000.
C22_PoolOwnerClassification ==
    ImpactFinished =>
        \A owner \in AllOwners(tx.pre_tok, tx.post_tok) :
            owner \in OwnersReturned <=>
                \/ is_known_dex_program(owner) # NoName
                \/ is_known_pool_account(owner) # NoName
                \/ LET st == OwnerChangeStats(tx.pre_tok, tx.post_tok, owner, 1)
                   IN  /\ Cardinality(MintsHeld(owner)) >= 2
                       /\ FGt(st[2], F(10000))
                       /\ st[3]

----------------------------------------------------------------------------
(* The pool metrics of the parser                                          *)

LAMPORTS == 1000000000

\* The amount of a mint with 6 decimals.
MicroUnits(x) == Norm(x, 1000000)

\* x as f64 / 1e9
Units(x) == Norm(x, LAMPORTS)

\* calculate_pool_metrics; supply is what get_token_supply returns when it
\* is asked, sol_price_usd is the price the parser stores.  An absent
\* Option is NoAmt.
calculate_pool_metrics(token_a_mint, token_b_mint, reserve_a, reserve_b, supply, sol_price_usd) ==
    LET is_a_stable == token_a_mint = WSOL_MINT \/ token_a_mint = USDC_MINT
        is_b_stable == token_b_mint = WSOL_MINT \/ token_b_mint = USDC_MINT
        token_a_liquidity == Units(reserve_a)
        token_b_liquidity == Units(reserve_b)
        value_a == IF token_a_mint = WSOL_MINT
                   THEN FMul(token_a_liquidity, sol_price_usd) ELSE token_a_liquidity
        value_b == IF token_b_mint = WSOL_MINT
                   THEN FMul(token_b_liquidity, sol_price_usd) ELSE token_b_liquidity
        price_a == FMul(Norm(reserve_a, reserve_b),
                        IF token_a_mint = WSOL_MINT THEN sol_price_usd ELSE F(1))
        price_b == FMul(Norm(reserve_b, reserve_a),
                        IF token_b_mint = WSOL_MINT THEN sol_price_usd ELSE F(1))
        out(liquidity_usd, priced, price) ==
            [liquidity_usd |-> liquidity_usd,
             token_a_liquidity |-> token_a_liquidity,
             token_b_liquidity |-> token_b_liquidity,
             token_price_usd |-> IF priced THEN price ELSE NoAmt,
             market_cap_usd |-> IF priced /\ supply.ok
                                THEN FMul(Units(supply.v), price) ELSE NoAmt,
             total_supply |-> IF priced /\ supply.ok THEN F(supply.v) ELSE NoAmt]
    IN  IF is_a_stable /\ ~is_b_stable
        THEN out(FMul(value_a, F(2)), reserve_b > 0, price_a)
        ELSE IF ~is_a_stable /\ is_b_stable
        THEN out(FMul(value_b, F(2)), reserve_a > 0, price_b)
        ELSE IF is_a_stable /\ is_b_stable
        THEN out(FAdd(value_a, value_b), FALSE, NaN)
        ELSE out(FMul(Units(reserve_a + reserve_b), <<1, 10>>), FALSE, NaN)

MetricMints == {WSOL_MINT, USDC_MINT, USDT_MINT, MintX}

MetricReserves == {0, 500000000, 1000000000}

\* What get_token_supply returns: an error or the supply.
MetricSupplies ==
    {[ok |-> FALSE, v |-> 0, err |-> "rpc"], [ok |-> TRUE, v |-> 2000000000, err |-> ""]}

MetricsInit ==
    /\ PipeQuiet
    /\ sol_price = NoPrice
    /\ now = 0
    /\ cache = EmptyCaches
    /\ lookup = <<>>
    /\ fetches = <<>>
    /\ tx = PlainSwap
    /\ impactPc = "idle"
    /\ calc = CalcInit
    /\ proj = NoProjection
    /\ ana = NoAnalysis
    /\ dex = NoDex
    /\ OthersQuiet

\* One call of calculate_pool_metrics by a parser; `shared` is the price the
\* refresher maintains, as it is at the time of the call.
CalculatePoolMetrics ==
    /\ \E a \in MetricMints, b \in MetricMints, ra \in MetricReserves,
          rb \in MetricReserves, supply \in MetricSupplies :
          dex' = [dex EXCEPT !.metrics =
                     [token_a_mint |-> a, token_b_mint |-> b, reserve_a |-> ra,
                      reserve_b |-> rb, supply |-> supply, shared |-> sol_price,
                      out |-> calculate_pool_metrics(a, b, ra, rb, supply,
                                                     dex.sol_price_usd)]]
    /\ UNCHANGED <<tx, impactPc, calc, proj, ana, pipeVars, cacheVars, extraVars>>

MetricsNext == CalculatePoolMetrics \/ SolPriceUpdate

MetricsSpec == MetricsInit /\ [][MetricsNext]_vars

----------------------------------------------------------------------------
(* Properties of the pool metrics                                          *)

Measured == dex.metrics # <<>>

\* C23: every conversion from native coin to USD uses the current value of
\* the shared native-asset price: the metrics of a pool with a native side
\* are those computed with the shared price of that moment.
C23_SharedPriceOnly ==
    (/\ Measured
     /\ WSOL_MINT \in {dex.metrics.token_a_mint, dex.metrics.token_b_mint}
     /\ dex.metrics.shared # NoPrice)
        => LET m == dex.metrics
           IN  m.out = calculate_pool_metrics(m.token_a_mint, m.token_b_mint,
                           m.reserve_a, m.reserve_b, m.supply, m.shared)

\* The USD price the parser gives a unit of a reference mint.
ReferenceUsd(mint) == IF mint = WSOL_MINT THEN dex.sol_price_usd ELSE F(1)

IsReference(mint) == mint \in {WSOL_MINT, USDC_MINT}

\* C24: calculate_pool_metrics computes a unit price and a capitalization
\* only when exactly one side of the pool is a reference asset; then
\* liquidity = 2 x the USD value of the reference side and unit price =
\* reference reserve / project reserve x the reference asset's USD price;
\* with two reference sides liquidity is the sum of both USD values, with
\* none it is the fallback estimate, and in both cases price and
\* capitalization are absent.
C24_PoolMetrics ==
    Measured =>
        LET m  == dex.metrics
            o  == m.out
            ua == FMul(Norm(m.reserve_a, 1000000000), ReferenceUsd(m.token_a_mint))
            ub == FMul(Norm(m.reserve_b, 1000000000), ReferenceUsd(m.token_b_mint))
            ra == IsReference(m.token_a_mint)
            rb == IsReference(m.token_b_mint)
        IN  /\ (o.token_price_usd # NoAmt \/ o.market_cap_usd # NoAmt) => (ra # rb)
            /\ (ra /\ ~rb) =>
                  /\ o.liquidity_usd = FMul(F(2), ua)
                  /\ m.reserve_b > 0 =>
                        o.token_price_usd = FMul(Norm(m.reserve_a, m.reserve_b),
                                                 ReferenceUsd(m.token_a_mint))
            /\ (rb /\ ~ra) =>
                  /\ o.liquidity_usd = FMul(F(2), ub)
                  /\ m.reserve_a > 0 =>
                        o.token_price_usd = FMul(Norm(m.reserve_b, m.reserve_a),
                                                 ReferenceUsd(m.token_b_mint))
            /\ (ra /\ rb) =>
                  /\ o.liquidity_usd = FAdd(ua, ub)
                  /\ o.token_price_usd = NoAmt /\ o.market_cap_usd = NoAmt
            /\ (~ra /\ ~rb) =>
                  /\ o.liquidity_usd =
                         FMul(Norm(m.reserve_a + m.reserve_b, 1000000000), <<1, 10>>)
                  /\ o.token_price_usd = NoAmt /\ o.market_cap_usd = NoAmt
            /\ o.market_cap_usd # NoAmt =>
                  o.market_cap_usd = FMul(Norm(m.supply.v, 1000000000), o.token_price_usd)

\* A pool of 1 native coin against 0.5 project token, priced by the parser
\* at 150 USD per coin: liquidity 300, unit price 300, capitalization 600.
C24_Witness_NativePool ==
    /\ Measured
    /\ dex.metrics.token_a_mint = WSOL_MINT
    /\ dex.metrics.token_b_mint = MintX
    /\ dex.metrics.out.liquidity_usd = F(300)
    /\ dex.metrics.out.token_price_usd = F(300)
    /\ dex.metrics.out.market_cap_usd = F(600)

----------------------------------------------------------------------------
(* Properties of the lock guards                                           *)

\* The positions at which a lookup is suspended: waiting for the network,
\* or waiting for the write lock.
Suspended(c) == lookup[c].pc \in {"fetch", "write"}

----------------------------------------------------------------------------
(* Properties of the fetch tasks                                           *)

\* How often the transaction of notification i was put on the queue: the
\* messages still queued and the one the monitor loop has taken off.
TimesQueued(i) ==
    Cardinality({q \in 1..Len(queue) : queue[q] = i})
        + (IF Dispatched(i) THEN 1 ELSE 0)

FetchEnded(i) == fetchTask[i] \in {"sent", "failed"}

\* C26: the fetch task of a signature asks for the record at the processed
\* level first and at the confirmed level only after the processed request
\* has failed; the record is queued exactly once when one of the requests
\* succeeded and never when both failed.
C26_TwoTierFetch ==
    \A i \in 1..Len(fetchTask) :
        LET r == requests[i]
        IN  /\ TimesQueued(i) <= 1
            /\ ~FetchEnded(i) => r = <<>> /\ TimesQueued(i) = 0
            /\ FetchEnded(i) =>
                  /\ Len(r) \in {1, 2}
                  /\ r[1].level = "processed"
                  /\ Len(r) = 2 <=> ~r[1].ok
                  /\ Len(r) = 2 => r[2].level = "confirmed"
                  /\ TimesQueued(i) = (IF \E q \in 1..Len(r) : r[q].ok THEN 1 ELSE 0)

\* One record came from the confirmed request after the processed one had
\* failed, and the requests for another signature both failed.
C26_Witness_Fallback ==
    \E i \in 1..Len(fetchTask), j \in 1..Len(fetchTask) :
        /\ fetchTask[i] = "sent"
        /\ requests[i] = << [level |-> "processed", ok |-> FALSE],
                            [level |-> "confirmed", ok |-> TRUE] >>
        /\ TimesQueued(i) = 1
        /\ fetchTask[j] = "failed"
        /\ Len(requests[j]) = 2
        /\ TimesQueued(j) = 0

----------------------------------------------------------------------------
(* The task that refreshes the native-asset price                          *)
(* upd.quote is the reply the last fetch got, upd.before the shared price  *)
(* when that fetch was started, upd.ticks the periodic refreshes so far.   *)

MaxTicks == 4

\* The match of the first call: the price on Ok, 221.0 on Err.
StoredAfterFirst(r) == IF r.ok THEN r.v ELSE F(221)

\* The match of the periodic call: the price on Ok, the current one on Err.
StoredAfterRefresh(current, r) == IF r.ok THEN r.v ELSE current

\* start_sol_price_updater up to the spawn: the first fetch and its store.
UpdaterFirst ==
    /\ upd.pc = "first"
    /\ \E quote \in SolQuotes :
          /\ sol_price' = StoredAfterFirst(fetch_sol_price_from_pool(quote))
          /\ upd' = [upd EXCEPT !.pc = "periodic", !.quote = quote,
                                !.before = sol_price]
    /\ UNCHANGED <<startPc, logs_receiver, stream, monitorPc, logsPc, notifs,
                   fetchTask, queue, anaTask, logOut, cacheVars, impactVars,
                   proj, ana, dex, requests, bundle, mon>>

\* One iteration of the spawned loop: the tick of the 600 s interval, the
\* fetch and its store.
UpdaterPeriodic ==
    /\ upd.pc = "periodic"
    /\ upd.ticks < MaxTicks
    /\ \E quote \in SolQuotes :
          /\ sol_price' = StoredAfterRefresh(sol_price, fetch_sol_price_from_pool(quote))
          /\ upd' = [upd EXCEPT !.quote = quote, !.before = sol_price,
                                !.ticks = @ + 1]
    /\ UNCHANGED <<startPc, logs_receiver, stream, monitorPc, logsPc, notifs,
                   fetchTask, queue, anaTask, logOut, cacheVars, impactVars,
                   proj, ana, dex, requests, bundle, mon>>

UpdaterInit == Init

UpdaterNext == UpdaterFirst \/ UpdaterPeriodic

UpdaterSpec == UpdaterInit /\ [][UpdaterNext]_vars

----------------------------------------------------------------------------
(* Properties of the price refresh                                         *)

\* The last refresh was a periodic one and its request failed.
PeriodicRefreshFailed == upd.ticks > 0 /\ upd.quote.kind \in SolFailures

\* C27: after a periodic refresh whose request failed the shared price is the
\* one it was before that refresh.
C27_FailedRefreshKeepsPrice == PeriodicRefreshFailed => sol_price = upd.before

----------------------------------------------------------------------------
(* The sandwich engine: detect_and_execute_sandwich                         *)
(* bundle.front and bundle.back tell whether the cluster has confirmed the  *)
(* front-run and the back-run; bundle.sends lists the calls of              *)
(* send_and_confirm_transaction with their outcome.                         *)

max_retries == 3

min_impact == <<1, 2>>

\* What calculate_tokens_received_and_mcap_impact hands to the engine:
\* an error or (tokens_received, mcap_impact_pct).
BundleAnalyses ==
    { [ok |-> FALSE, tokens |-> F(0), impact |-> F(0)],
      [ok |-> TRUE, tokens |-> F(500), impact |-> <<2, 5>>],
      [ok |-> TRUE, tokens |-> F(500), impact |-> <<1, 2>>],
      [ok |-> TRUE, tokens |-> F(1000), impact |-> F(3)],
      [ok |-> TRUE, tokens |-> F(20), impact |-> F(1)],
      [ok |-> TRUE, tokens |-> <<1, 0>>, impact |-> <<1, 0>>] }

BundleErr(e) == [ok |-> FALSE, v |-> "", err |-> e]

BundleOk(signature) == [ok |-> TRUE, v |-> signature, err |-> ""]

\* Steps 1 to 4 of detect_and_execute_sandwich: the analysis, the impact
\* threshold, the two amounts and the two unsigned transactions.
BundleDetect ==
    /\ bundle.pc = "detect"
    /\ \E a \in BundleAnalyses :
          bundle' =
              IF ~a.ok THEN [bundle EXCEPT !.pc = "done", !.res = BundleErr("analysis")]
              ELSE IF FLt(a.impact, min_impact)
              THEN [bundle EXCEPT !.pc = "done", !.res = BundleErr("Impact trop faible")]
              ELSE [bundle EXCEPT !.pc = "create",
                                  !.front_run_amount = FMul(a.tokens, <<1, 10>>),
                                  !.back_run_amount = FMul(a.tokens, <<1, 10>>)]
    /\ UNCHANGED <<pipeVars, cacheVars, impactVars, proj, ana, dex, requests, upd, mon>>

\* create_atomic_bundle: the blockhash request, then both transactions are
\* signed with that blockhash.
create_atomic_bundle ==
    /\ bundle.pc = "create"
    /\ \E blockhash_ok \in BOOLEAN :
          bundle' = IF blockhash_ok THEN [bundle EXCEPT !.pc = "front"]
                    ELSE [bundle EXCEPT !.pc = "done", !.res = BundleErr("blockhash")]
    /\ UNCHANGED <<pipeVars, cacheVars, impactVars, proj, ana, dex, requests, upd, mon>>

\* The Err arm of submit_bundle_with_retry: the count, then the 50 ms sleep
\* or, after the last attempt, the error.
AttemptFailed(b) ==
    IF b.retry_count + 1 < max_retries
    THEN [b EXCEPT !.retry_count = @ + 1, !.pc = "sleep"]
    ELSE [b EXCEPT !.retry_count = @ + 1, !.pc = "done",
                   !.res = BundleErr("Echec apres 3 tentatives")]

\* The outcomes of send_and_confirm_transaction: a transaction the cluster
\* has not confirmed is confirmed or refused; of one it has confirmed
\* already the call reports either.
SendOutcomes(confirmed) == BOOLEAN

\* try_submit_bundle, the front-run: sent and confirmed, then the back-run
\* follows; an error ends the attempt.
SubmitFront ==
    /\ bundle.pc = "front"
    /\ \E ok \in SendOutcomes(bundle.front) :
          LET b == [bundle EXCEPT !.sends = Append(@, [tx |-> "front", ok |-> ok]),
                                  !.front = @ \/ ok]
          IN  bundle' = IF ok THEN [b EXCEPT !.pc = "back"] ELSE AttemptFailed(b)
    /\ UNCHANGED <<pipeVars, cacheVars, impactVars, proj, ana, dex, requests, upd, mon>>

\* try_submit_bundle, the back-run: sent and confirmed, then the bundle is
\* submitted; an error ends the attempt.
SubmitBack ==
    /\ bundle.pc = "back"
    /\ \E ok \in SendOutcomes(bundle.back) :
          LET b == [bundle EXCEPT !.sends = Append(@, [tx |-> "back", ok |-> ok]),
                                  !.back = @ \/ ok]
          IN  bundle' = IF ok THEN [b EXCEPT !.pc = "done", !.res = BundleOk("back-run")]
                        ELSE AttemptFailed(b)
    /\ UNCHANGED <<pipeVars, cacheVars, impactVars, proj, ana, dex, requests, upd, mon>>

\* The sleep between two attempts is over.
RetrySleep ==
    /\ bundle.pc = "sleep"
    /\ bundle' = [bundle EXCEPT !.pc = "front"]
    /\ UNCHANGED <<pipeVars, cacheVars, impactVars, proj, ana, dex, requests, upd, mon>>

BundleInit == Init

BundleNext ==
    \/ BundleDetect
    \/ create_atomic_bundle
    \/ SubmitFront
    \/ SubmitBack
    \/ RetrySleep

BundleSpec == BundleInit /\ [][BundleNext]_vars

----------------------------------------------------------------------------
(* Properties of the bundle                                                *)

\* C28: when the submission of the bundle, retries included, is over, the
\* front-run and the back-run are both confirmed or neither is.
C28_BundleAtomic == bundle.pc = "done" => (bundle.front <=> bundle.back)

----------------------------------------------------------------------------
(* Properties of the availability of the native-asset price                *)

\* C29: the shared price is set before the log subscription is opened and,
\* once set, is never absent again; no analysis task of the pipeline runs
\* or has ended with the price missing.
C29_PriceBeforeSubscription ==
    /\ [](/\ stream # "closed" => sol_price # NoPrice
          /\ \A k \in 1..Len(anaTask) :
                /\ Dispatched(k) => get_sol_price_cached(sol_price).ok
                /\ Finished(k) =>
                      anaTask[k].res.err # get_sol_price_cached(NoPrice).err)
    /\ [][sol_price # NoPrice => sol_price' # NoPrice]_vars

\* An analysis has ended with a result while the price, refreshed since the
\* subscription was opened, was there.
C29_Witness_Analysed ==
    /\ stream = "open"
    /\ sol_price = F(221)
    /\ \E k \in 1..Len(anaTask) : Finished(k) /\ anaTask[k].res.ok

----------------------------------------------------------------------------
(* Calls of monitor_websocket_transactions on engines sharing one state     *)
(* mon.call[c] is the position of engine c in the function, mon.consumers   *)
(* the number of process_websocket_logs tasks spawned, mon.returned the     *)
(* errors the calls have returned.                                         *)

MaxMonitors == 3

MaxReturns == 3

Monitors == 1..MaxMonitors

ReceiverMissing == "Recepteur de logs non initialise"

\* A read of the slot that leaves the receiver where it is.
peek(slot) == <<slot, slot>>

\* Option::take under the write guard: the value and what is left.
take(slot) == <<slot, "None">>

\* initialize_websocket: the subscription, then the client and the receiver
\* are stored.
InitializeWebsocket ==
    /\ mon.init = "none"
    /\ \E subscribed \in BOOLEAN :
          IF subscribed
          THEN /\ logs_receiver' = "Some"
               /\ stream' = "open"
               /\ mon' = [mon EXCEPT !.init = "ok"]
          ELSE /\ mon' = [mon EXCEPT !.init = "err"]
               /\ UNCHANGED <<logs_receiver, stream>>
    /\ UNCHANGED <<startPc, sol_price, monitorPc, logsPc, notifs, fetchTask, queue,
                   anaTask, logOut, cacheVars, impactVars, proj, ana, dex,
                   requests, upd, bundle>>

\* An engine enters monitor_websocket_transactions: the channel is created
\* and the write lock of logs_receiver is awaited.
MonitorEnter(c) ==
    /\ mon.call[c] = "idle"
    /\ Len(mon.returned) < MaxReturns
    /\ mon' = [mon EXCEPT !.call[c] = "locking"]
    /\ UNCHANGED <<pipeVars, cacheVars, impactVars, proj, ana, dex, requests, upd, bundle>>

\* Under the write guard: take(); with a receiver the log task is spawned and
\* the loop entered, without one the error is returned.
MonitorTake(c) ==
    /\ mon.call[c] = "locking"
    /\ LET t == take(logs_receiver)
       IN  /\ logs_receiver' = t[2]
           /\ mon' = IF t[1] = "Some"
                     THEN [mon EXCEPT !.call[c] = "receiving", !.consumers = @ + 1]
                     ELSE [mon EXCEPT !.call[c] = "idle",
                                      !.returned = Append(@, ReceiverMissing)]
    /\ UNCHANGED <<startPc, sol_price, stream, monitorPc, logsPc, notifs, fetchTask,
                   queue, anaTask, logOut, cacheVars, impactVars, proj, ana, dex,
                   requests, upd, bundle>>

ReceiverInit ==
    /\ PipeQuiet
    /\ sol_price = F(221)
    /\ now = 0
    /\ cache = EmptyCaches
    /\ lookup = <<>>
    /\ fetches = <<>>
    /\ tx = PlainSwap
    /\ impactPc = "idle"
    /\ calc = CalcInit
    /\ proj = NoProjection
    /\ ana = NoAnalysis
    /\ dex = NoDex
    /\ requests = <<>>
    /\ upd = NoUpdate
    /\ bundle = NoBundle
    /\ mon = [NoMonitors EXCEPT !.call = [c \in Monitors |-> "idle"]]

ReceiverNext ==
    \/ InitializeWebsocket
    \/ \E c \in Monitors : MonitorEnter(c)
    \/ \E c \in Monitors : MonitorTake(c)

ReceiverSpec == ReceiverInit /\ [][ReceiverNext]_vars

----------------------------------------------------------------------------
(* Properties of the log receiver                                          *)

Consuming == {c \in Monitors : mon.call[c] = "receiving"}

\* C30: at most one call obtains the receiver and starts a log task; after
\* a successful initialisation the receiver is gone exactly when one call
\* holds it, and every other call that has ended returned the error that
\* the receiver is not initialised.
C30_SingleConsumer ==
    /\ Cardinality(Consuming) <= 1
    /\ mon.consumers = Cardinality(Consuming)
    /\ mon.init = "ok" => (logs_receiver = "None" <=> Cardinality(Consuming) = 1)
    /\ mon.init # "ok" => Consuming = {}
    /\ \A r \in 1..Len(mon.returned) : mon.returned[r] = ReceiverMissing

\* One call holds the receiver; a call before it and a call after it have
\* failed, and another is waiting for the lock.
C30_Witness_SecondCallFails ==
    /\ mon.init = "ok"
    /\ Cardinality(Consuming) = 1
    /\ Len(mon.returned) >= 2
    /\ \E c \in Monitors : mon.call[c] = "locking"

====
